---- MODULE Spec2Model ----
(***************************************************************************)
(* Spatial quality control of olympian: buddy_check and sct                *)
(* (src/src/checks/spatial), with the neighbour queries of SpatialTree     *)
(* (src/src/util/spatial_tree.rs).                                         *)
(*                                                                         *)
(* Numbers.  f32 values are modelled by integers (a fixed unit per         *)
(* quantity) and the decisions on them are taken in exact arithmetic; a    *)
(* non-finite f32 (NaN, +-inf) is the record NaN.  Station positions are   *)
(* points of a line: geom[i] is the coordinate SpatialTree indexes, and    *)
(* the R-tree query locate_within_distance(p, r) of the rstar crate        *)
(* returns the points whose SQUARED distance to p is <= r.  In the calls   *)
(* of SpecOI the values and the elevations are IEEE 754 binary32 numbers   *)
(* and the interpolation of sct is computed with f32's rounding.           *)
(***************************************************************************)
EXTENDS Integers, Sequences, FiniteSets, TLC

VARIABLES
    alg,            \* which entry point was called: "buddy" or "sct"
    n,              \* data.len()
    geom,           \* rtree: indexed coordinate of each station
    elevs,          \* rtree.elevs
    in_range,       \* rtree.lats, rtree.lons: |lat| <= 90 and |lon| <= 360, per point
    data,           \* data: &[Option<f32>]
    obs_to_check,   \* Option<&[bool]>
    args,           \* BuddyCheckArgs / SctArgs
    pc,             \* position in the call: "start", "sweep", then the way it ended:
                    \* "done" for Ok(flags), the Error variant returned, or "panic"
    flags,          \* let mut flags: Vec<Flag>
    iteration,      \* number of sweeps started so far
    i,              \* index of the station loop
    num_removed_last_iteration,     \* buddy_check bookkeeping
    num_thrown_out, \* sct: rejections of the current sweep
    checked,        \* sct: stations already checked in the current sweep
    oi,             \* sct: optimal-interpolation verdicts of the boxes computed so far
    tree_order,     \* sct: order in which the R-tree enumerates the neighbours of a station
    box,            \* last buddy list / box built: [pivot, members, applied]
    init_flags,     \* history: flags right after initialisation
    sweep_start_flags,  \* history: flags when the current sweep started
    evals,          \* history: sct, how often each station was evaluated in the current sweep
    hist,           \* history: per completed sweep, [new_fail, new_isolated, counted]
    query           \* the last direct call of a helper (a query of the tree,
                    \* compute_quantile) and what it returned

vars == <<alg, n, geom, elevs, in_range, data, obs_to_check, args, pc, flags, iteration, i,
          num_removed_last_iteration, num_thrown_out, checked, oi, tree_order, box,
          init_flags, sweep_start_flags, evals, hist, query>>

sctvars == <<num_thrown_out, checked, oi, tree_order, evals>>

inputs == <<alg, n, geom, elevs, in_range, data, obs_to_check, args>>

----------------------------------------------------------------------------
(* Bounds of the model *)

\* number of stations of the enumerated inputs
MaxN == 3
\* station coordinates range over 0..MaxPos
MaxPos == 2
\* observation values range over 0..MaxVal
MaxVal == 2
\* num_iterations ranges over 1..MaxIter
MaxIter == 4
\* the radius of a direct query of the tree ranges over 0..MaxRadius
MaxRadius == 4
\* the arrays given to compute_quantile have 1..MaxLen entries, 0..MaxArrayVal or NaN
MaxLen == 4
MaxArrayVal == 4

----------------------------------------------------------------------------
(* Values *)

Stations == 0 .. (n - 1)

\* f32: a finite number or a non-finite one
F(v) == [fin |-> TRUE, val |-> v]
NaN == [fin |-> FALSE, val |-> 0]

\* Option<f32>
Some(f) == [some |-> TRUE, fin |-> f.fin, val |-> f.val]
None == [some |-> FALSE, fin |-> FALSE, val |-> 0]

Abs(a) == IF a < 0 THEN -a ELSE a

RECURSIVE SumOver(_, _)
SumOver(S, f) ==
    IF S = {} THEN 0
    ELSE LET e == CHOOSE e \in S : TRUE IN f[e] + SumOver(S \ {e}, f)

\* util::is_valid
is_valid(f) == f.fin

\* SingleOrVec::index
Index(sv, k) == IF sv.single THEN sv.value ELSE sv.vec[k]
Single(v) == [single |-> TRUE, value |-> v, vec |-> <<>>]
\* SingleOrVec::Vec, the vector a function on 0 .. len - 1
Vec(v) == [single |-> FALSE, value |-> 0, vec |-> v]
\* vec.index(index) panics when the index is out of bounds
IndexPanics(sv, k) == ~sv.single /\ k \notin DOMAIN sv.vec

----------------------------------------------------------------------------
(* SpatialTree *)

\* squared distance between two indexed points, as rstar measures it
Dist2(a, b) == (geom[a] - geom[b]) * (geom[a] - geom[b])

\* util::calc_distance_xyz between two indexed points
calc_distance_xyz(a, b) == Abs(geom[a] - geom[b])

\* SpatialTree::get_neighbours at the coordinates of station c: the set of
\* stations returned (the order of the result is unspecified)
get_neighbours(c, radius, include_match) ==
    {j \in DOMAIN geom :
        /\ Dist2(c, j) <= radius
        /\ (include_match \/ geom[j] # geom[c])}

\* SpatialTree::get_neighbours_with_distance at the coordinates of station c,
\* the tree enumerating the neighbours found in the given order (lines 70-91)
get_neighbours_with_distance(c, radius, include_match, order) ==
    [points |-> order,
     distances |-> [p \in DOMAIN order |-> calc_distance_xyz(c, order[p])]]

NoQuery == [at |-> -1, radius |-> 0, include_match |-> FALSE,
            points |-> <<>>, distances |-> <<>>]

----------------------------------------------------------------------------
(* buddy_check *)

\* the initial flags of buddy_check and sct (before sct's elevation pass)
InitialFlags ==
    [k \in Stations |->
        IF data[k].some
        THEN IF is_valid(data[k]) THEN "Pass" ELSE "Fail"
        ELSE "DataMissing"]

Selected(k) == (~obs_to_check.some) \/ obs_to_check.inner[k]

\* the stations whose values are pushed to list_buddies for station c under flags f
ListBuddies_KeepFlagged(f, c) ==
    LET neighbours == get_neighbours(c, Index(args.radii, c), FALSE) IN
    IF Cardinality(neighbours) >= Index(args.nums_min, c)
    THEN {j \in neighbours :
            \/ args.max_elev_diff <= 0
            \/ (elevs[c].fin /\ elevs[j].fin
                /\ Abs(elevs[c].val - elevs[j].val) <= args.max_elev_diff)}
    ELSE {}

ListBuddies(f, c) ==
    LET neighbours == get_neighbours(c, Index(args.radii, c), FALSE) IN
    IF Cardinality(neighbours) >= Index(args.nums_min, c)
    THEN {j \in neighbours :
            /\ f[j] = "Pass"
            /\ \/ args.max_elev_diff <= 0
               \/ (elevs[c].fin /\ elevs[j].fin
                   /\ Abs(elevs[c].val - elevs[j].val) <= args.max_elev_diff)}
    ELSE {}

\* the value a buddy contributes to list_buddies
AdjustedValue(c, j) ==
    IF args.max_elev_diff > 0
    THEN data[j].val + (elevs[c].val - elevs[j].val) * args.elev_gradient
    ELSE data[j].val

ExceedsThreshold_NotStrict(c, B) ==
    LET cnt == Cardinality(B)
        S == SumOver(B, [j \in B |-> AdjustedValue(c, j)])
        Q == SumOver(B, [j \in B |-> AdjustedValue(c, j) * AdjustedValue(c, j)])
        D == Abs(cnt * data[c].val - S)
        T == args.threshold
    IN  /\ cnt > 0
        /\ D * D * cnt >= T * T * (cnt * Q - S * S) * (cnt + 1)
        /\ D * args.min_std.den >= T * args.min_std.num * cnt

\* (data[c] - mean).abs() / std_adjusted > threshold, over the buddies B (exact):
\* with cnt = |B|, S the sum and Q the sum of squares of the buddy values,
\*   |v - S/cnt| > threshold * max(sqrt((Q/cnt - (S/cnt)^2) * (1 + 1/cnt)), min_std)
ExceedsThreshold(c, B) ==
    LET cnt == Cardinality(B)
        S == SumOver(B, [j \in B |-> AdjustedValue(c, j)])
        Q == SumOver(B, [j \in B |-> AdjustedValue(c, j) * AdjustedValue(c, j)])
        D == Abs(cnt * data[c].val - S)
        T == args.threshold
    IN  /\ cnt > 0
        /\ D * D * cnt > T * T * (cnt * Q - S * S) * (cnt + 1)
        /\ D * args.min_std.den > T * args.min_std.num * cnt

BuddyStationFlag_NoCountCheck(f, c) ==
    IF f[c] # "Pass" THEN f[c]
    ELSE IF ~Selected(c) THEN f[c]
    ELSE LET B == ListBuddies(f, c) IN
         IF ExceedsThreshold(c, B)
         THEN "Fail"
         ELSE f[c]

BuddyStationFlag_Isolated(f, c) ==
    IF f[c] # "Pass" THEN f[c]
    ELSE IF ~Selected(c) THEN f[c]
    ELSE LET B == ListBuddies(f, c) IN
         IF Cardinality(B) < Index(args.nums_min, c) THEN "Isolated"
         ELSE IF ExceedsThreshold(c, B) THEN "Fail"
         ELSE f[c]

\* the body of the station loop for station c: the flag of c afterwards
BuddyStationFlag(f, c) ==
    IF f[c] # "Pass" THEN f[c]
    ELSE IF ~Selected(c) THEN f[c]
    ELSE LET B == ListBuddies(f, c) IN
         IF Cardinality(B) >= Index(args.nums_min, c) /\ ExceedsThreshold(c, B)
         THEN "Fail"
         ELSE f[c]

NumRemoved(f) == Cardinality({k \in Stations : f[k] # "Pass"})

\* num_removed - num_removed_last_iteration on u32.  Both counts are at most
\* data.len(); a negative result stands for the underflow of the subtraction
\* (a panic in a debug build, the wrapped value 2^32 + result in a release
\* build, which is not 0 either).
NumRemovedCurrentIteration(f, last) == NumRemoved(f) - last

NewlyRemoved(f) == {k \in Stations : f[k] # "Pass" /\ sweep_start_flags[k] = "Pass"}

HistEntry(f, counted) ==
    [new_fail |-> Cardinality({k \in NewlyRemoved(f) : f[k] = "Fail"}),
     new_isolated |-> Cardinality({k \in NewlyRemoved(f) : f[k] = "Isolated"}),
     counted |-> counted]

NoBox == [pivot |-> -1, members |-> {}, applied |-> {}]

\* entry of buddy_check: the flags are initialised (lines 64-78)
BuddyStart ==
    /\ pc = "start" /\ alg = "buddy"
    /\ flags' = InitialFlags
    /\ init_flags' = InitialFlags
    /\ sweep_start_flags' = InitialFlags
    /\ num_removed_last_iteration' = 0
    /\ iteration' = IF args.num_iterations >= 1 THEN 1 ELSE 0
    /\ i' = 0
    /\ pc' = IF args.num_iterations >= 1 THEN "sweep" ELSE "done"
    /\ UNCHANGED <<inputs, query, sctvars, box, hist>>

BuddyStation_Batch ==
    /\ pc = "sweep" /\ alg = "buddy" /\ i < n
    /\ flags' = [flags EXCEPT ![i] = BuddyStationFlag(sweep_start_flags, i)]
    /\ box' = IF flags[i] = "Pass" /\ Selected(i)
              THEN [pivot |-> i, members |-> ListBuddies(sweep_start_flags, i),
                    applied |-> IF Cardinality(ListBuddies(sweep_start_flags, i))
                                       >= Index(args.nums_min, i)
                                THEN {i} ELSE {}]
              ELSE NoBox
    /\ i' = i + 1
    /\ UNCHANGED <<inputs, query, pc, iteration, num_removed_last_iteration, sctvars,
                   init_flags, sweep_start_flags, hist>>

\* The station loop panics for station c under flags f: an index out of bounds
\* in obs_to_check (line 86), in the tree's vectors (line 87), in radii (line
\* 88) or nums_min (line 92), or in flags for a neighbour the data does not
\* hold (line 96).  buddy_check checks no length (line 62).
BuddyPanics(f, c) ==
    IF f[c] # "Pass" THEN FALSE
    ELSE IF obs_to_check.some /\ c \notin DOMAIN obs_to_check.inner THEN TRUE
    ELSE IF ~Selected(c) THEN FALSE
    ELSE IF c \notin DOMAIN geom THEN TRUE
    ELSE IF IndexPanics(args.radii, c) \/ IndexPanics(args.nums_min, c) THEN TRUE
    ELSE LET neighbours == get_neighbours(c, Index(args.radii, c), FALSE) IN
         /\ Cardinality(neighbours) >= Index(args.nums_min, c)
         /\ \E j \in neighbours : j \notin Stations

\* the station loop panics at station i
BuddyPanic ==
    /\ pc = "sweep" /\ alg = "buddy" /\ i < n
    /\ BuddyPanics(flags, i)
    /\ pc' = "panic"
    /\ UNCHANGED <<inputs, query, flags, iteration, i, num_removed_last_iteration, sctvars,
                   box, init_flags, sweep_start_flags, hist>>

\* one pass of the station loop (lines 81-140)
BuddyStation ==
    /\ pc = "sweep" /\ alg = "buddy" /\ i < n
    /\ ~BuddyPanics(flags, i)
    /\ flags' = [flags EXCEPT ![i] = BuddyStationFlag(flags, i)]
    /\ box' = IF flags[i] = "Pass" /\ Selected(i)
              THEN [pivot |-> i, members |-> ListBuddies(flags, i),
                    applied |-> IF Cardinality(ListBuddies(flags, i)) >= Index(args.nums_min, i)
                                THEN {i} ELSE {}]
              ELSE NoBox
    /\ i' = i + 1
    /\ UNCHANGED <<inputs, query, pc, iteration, num_removed_last_iteration, sctvars,
                   init_flags, sweep_start_flags, hist>>

BuddyEndSweep_BreakInverted ==
    /\ pc = "sweep" /\ alg = "buddy" /\ i = n
    /\ LET cur == NumRemovedCurrentIteration(flags, num_removed_last_iteration) IN
       /\ hist' = Append(hist, HistEntry(flags, cur))
       /\ IF cur # 0
          THEN /\ pc' = "done"
               /\ UNCHANGED <<num_removed_last_iteration, iteration, i, sweep_start_flags>>
          ELSE /\ num_removed_last_iteration' = cur
               /\ IF iteration < args.num_iterations
                  THEN /\ iteration' = iteration + 1
                       /\ i' = 0
                       /\ sweep_start_flags' = flags
                       /\ pc' = "sweep"
                  ELSE /\ pc' = "done"
                       /\ UNCHANGED <<iteration, i, sweep_start_flags>>
    /\ box' = NoBox
    /\ UNCHANGED <<inputs, query, flags, sctvars, init_flags>>

BuddyEndSweep_Accumulate ==
    /\ pc = "sweep" /\ alg = "buddy" /\ i = n
    /\ LET cur == NumRemovedCurrentIteration(flags, num_removed_last_iteration) IN
       /\ hist' = Append(hist, HistEntry(flags, cur))
       /\ IF cur = 0
          THEN /\ pc' = "done"
               /\ UNCHANGED <<num_removed_last_iteration, iteration, i, sweep_start_flags>>
          ELSE /\ num_removed_last_iteration' = num_removed_last_iteration + NumRemoved(flags)
               /\ IF iteration < args.num_iterations
                  THEN /\ iteration' = iteration + 1
                       /\ i' = 0
                       /\ sweep_start_flags' = flags
                       /\ pc' = "sweep"
                  ELSE /\ pc' = "done"
                       /\ UNCHANGED <<iteration, i, sweep_start_flags>>
    /\ box' = NoBox
    /\ UNCHANGED <<inputs, query, flags, sctvars, init_flags>>

\* the bookkeeping after a sweep (lines 142-151) and the loop header (line 80)
BuddyEndSweep ==
    /\ pc = "sweep" /\ alg = "buddy" /\ i = n
    /\ LET cur == NumRemovedCurrentIteration(flags, num_removed_last_iteration) IN
       /\ hist' = Append(hist, HistEntry(flags, cur))
       /\ IF cur = 0
          THEN /\ pc' = "done"
               /\ UNCHANGED <<num_removed_last_iteration, iteration, i, sweep_start_flags>>
          ELSE /\ num_removed_last_iteration' = cur
               /\ IF iteration < args.num_iterations
                  THEN /\ iteration' = iteration + 1
                       /\ i' = 0
                       /\ sweep_start_flags' = flags
                       /\ pc' = "sweep"
                  ELSE /\ pc' = "done"
                       /\ UNCHANGED <<iteration, i, sweep_start_flags>>
    /\ box' = NoBox
    /\ UNCHANGED <<inputs, query, flags, sctvars, init_flags>>

\* one sweep of the station loop (lines 81-140) from the flags f, station c onwards
RECURSIVE BuddySweepFrom(_, _)
BuddySweepFrom(f, c) ==
    IF c = n THEN f
    ELSE BuddySweepFrom([f EXCEPT ![c] = BuddyStationFlag(f, c)], c + 1)

\* the iteration loop (lines 80-152) from sweep number it, with at most m sweeps
RECURSIVE BuddyLoop(_, _, _, _)
BuddyLoop(f, last, it, m) ==
    IF it > m THEN f
    ELSE LET g == BuddySweepFrom(f, 0)
             cur == NumRemovedCurrentIteration(g, last)
         IN  IF cur = 0 THEN g ELSE BuddyLoop(g, cur, it + 1, m)

\* buddy_check with num_iterations = m: the flags returned
buddy_check(m) == BuddyLoop(InitialFlags, 0, 1, m)

----------------------------------------------------------------------------
(* sct *)

\* exact fractions [num, den] with den > 0, for the f32 arithmetic of compute_quantile
Frac(a, b) == [num |-> a, den |-> b]
FracSub(x, y) == Frac(x.num * y.den - y.num * x.den, x.den * y.den)
FracAdd(x, y) == Frac(x.num * y.den + y.num * x.den, x.den * y.den)
FracMul(x, y) == Frac(x.num * y.num, x.den * y.den)
\* x / y for y > 0
FracDiv(x, y) == Frac(x.num * y.den, x.den * y.num)
FracLess(x, y) == x.num * y.den < y.num * x.den
FracEq(x, y) == x.num * y.den = y.num * x.den

\* lines 109-114: the valid entries of the array, sorted ascending
SortedValid_Unsorted(array) == SelectSeq(array, is_valid)

SortedValid(array) ==
    SortSeq(SelectSeq(array, is_valid), LAMBDA a, b : a.val < b.val)

\* lines 121-122: floor and ceil of quantile * (len - 1)
LowerIndex(quantile, len) == (quantile.num * (len - 1)) \div quantile.den
UpperIndex(quantile, len) ==
    LowerIndex(quantile, len)
        + (IF (quantile.num * (len - 1)) % quantile.den = 0 THEN 0 ELSE 1)

\* line 132: f, for lower_index # upper_index
InterpolationWeight(quantile, len) ==
    LET lower_quantile == Frac(LowerIndex(quantile, len), len - 1)
        upper_quantile == Frac(UpperIndex(quantile, len), len - 1)
    IN  FracDiv(FracSub(quantile, lower_quantile), FracSub(upper_quantile, lower_quantile))

\* an assertion of compute_quantile fails (lines 118, 130-134)
QuantilePanics(quantile, array) ==
    LET len == Len(SortedValid(array)) IN
    \/ len = 0
    \/ /\ LowerIndex(quantile, len) # UpperIndex(quantile, len)
       /\ LET lower_quantile == Frac(LowerIndex(quantile, len), len - 1)
              upper_quantile == Frac(UpperIndex(quantile, len), len - 1)
              f == InterpolationWeight(quantile, len)
          IN  \/ ~FracLess(lower_quantile, upper_quantile)
              \/ FracLess(quantile, lower_quantile)
              \/ f.num < 0
              \/ f.num > f.den

\* compute_quantile (lines 108-141), when no assertion fails
compute_quantile(quantile, array) ==
    LET new_array == SortedValid(array)
        len == Len(new_array)
        lower_index == LowerIndex(quantile, len)
        upper_index == UpperIndex(quantile, len)
        lower_value == new_array[lower_index + 1].val
        upper_value == new_array[upper_index + 1].val
    IN  IF lower_index = upper_index
        THEN Frac(lower_value, 1)
        ELSE FracAdd(Frac(lower_value, 1),
                     FracMul(Frac(upper_value - lower_value, 1),
                             InterpolationWeight(quantile, len)))

RECURSIVE GCD(_, _)
GCD(a, b) == IF b = 0 THEN a ELSE GCD(b, a % b)

\* a fraction in lowest terms
FracNorm(x) ==
    LET g == GCD(Abs(x.num), x.den) IN Frac(x.num \div g, x.den \div g)

\* the least common denominator of the fractions xs[1 .. k]
RECURSIVE CommonDen(_, _)
CommonDen(xs, k) ==
    IF k = 0 THEN 1
    ELSE LET d == CommonDen(xs, k - 1)
             e == FracNorm(xs[k]).den
         IN  (d \div GCD(d, e)) * e

\* compute_quantile on an array of fractions: the entries are brought to their
\* common denominator and the quantile of the numerators is taken
FracQuantile(quantile, xs) ==
    LET den == CommonDen(xs, Len(xs))
        nums == [p \in DOMAIN xs |-> F(FracNorm(xs[p]).num * (den \div FracNorm(xs[p]).den))]
    IN  FracNorm(FracMul(compute_quantile(quantile, nums), Frac(1, den)))

RECURSIVE SeqOf(_)
SeqOf(S) == IF S = {} THEN <<>>
            ELSE LET e == CHOOSE e \in S : TRUE IN <<e>> \o SeqOf(S \ {e})

\* line 62
gamma == Frac(-65, 10000)

\* lines 81-91: the slopes of all pairs i < j (in some order: only their median
\* is used); a pair less than 1 apart in elevation contributes 0
PairSlopes_NoFlatPairs(elevs_box, values_box) ==
    LET pairs == SeqOf({pq \in (DOMAIN elevs_box) \X (DOMAIN elevs_box) :
                            /\ pq[1] < pq[2]
                            /\ ~FracEq(elevs_box[pq[1]], elevs_box[pq[2]])})
    IN  [k \in DOMAIN pairs |->
            LET dz == FracSub(elevs_box[pairs[k][1]], elevs_box[pairs[k][2]])
                dv == FracSub(values_box[pairs[k][1]], values_box[pairs[k][2]])
            IN  IF dz.num = 0 THEN Frac(0, 1)
                ELSE IF dz.num < 0 THEN FracNorm(Frac(-(dv.num * dz.den), -(dv.den * dz.num)))
                ELSE FracNorm(Frac(dv.num * dz.den, dv.den * dz.num))]

PairSlopes(elevs_box, values_box) ==
    LET pairs == SeqOf({pq \in (DOMAIN elevs_box) \X (DOMAIN elevs_box) : pq[1] < pq[2]})
    IN  [k \in DOMAIN pairs |->
            LET dz == FracSub(elevs_box[pairs[k][1]], elevs_box[pairs[k][2]])
                dv == FracSub(values_box[pairs[k][1]], values_box[pairs[k][2]])
            IN  IF Abs(dz.num) < dz.den THEN Frac(0, 1)
                ELSE IF dz.num < 0 THEN FracNorm(Frac(-(dv.num * dz.den), -(dv.den * dz.num)))
                ELSE FracNorm(Frac(dv.num * dz.den, dv.den * dz.num))]

RECURSIVE FracSum(_, _)
FracSum(xs, k) == IF k = 0 THEN Frac(0, 1) ELSE FracNorm(FracAdd(FracSum(xs, k - 1), xs[k]))

\* line 66: the smallest elevation equals the largest
AllEqual(xs) == \A p, q \in DOMAIN xs : FracEq(xs[p], xs[q])

\* compute_vertical_profile_theil_sen (lines 53-105) on sequences of fractions
compute_vertical_profile_theil_sen(elevs_box, values_box, num_min_prof, min_elev_diff) ==
    LET len == Len(values_box)
        mean_t == FracNorm(FracMul(FracSum(values_box, len), Frac(1, len)))
    IN  IF AllEqual(elevs_box) THEN [p \in 1 .. len |-> mean_t]
        ELSE LET z05 == FracQuantile(Frac(1, 20), elevs_box)
                 z95 == FracQuantile(Frac(19, 20), elevs_box)
                 use_basic == \/ len < num_min_prof
                              \/ FracLess(FracSub(z95, z05), Frac(min_elev_diff, 1))
                 m_median == IF use_basic THEN gamma
                             ELSE FracQuantile(Frac(1, 2), PairSlopes(elevs_box, values_box))
                 q == [p \in 1 .. len |->
                          FracNorm(FracSub(values_box[p], FracMul(m_median, elevs_box[p])))]
                 q_median == FracQuantile(Frac(1, 2), q)
             IN  [p \in 1 .. len |->
                    FracNorm(FracAdd(q_median, FracMul(m_median, elevs_box[p])))]

SctValidate_NumMaxStrict ==
    IF DOMAIN geom # Stations THEN "InvalidInputShape"
    ELSE IF ~args.pos.single /\ DOMAIN args.pos.vec # Stations THEN "InvalidInputShape"
    ELSE IF ~args.pos.single /\ (\E k \in Stations : args.pos.vec[k] < 0) THEN "InvalidArg"
    ELSE IF ~args.neg.single /\ DOMAIN args.neg.vec # Stations THEN "InvalidInputShape"
    ELSE IF ~args.neg.single /\ (\E k \in Stations : args.neg.vec[k] < 0) THEN "InvalidArg"
    ELSE IF ~args.eps2.single /\ DOMAIN args.eps2.vec # Stations THEN "InvalidInputShape"
    ELSE IF ~args.eps2.single /\ (\E k \in Stations : args.eps2.vec[k] <= 0) THEN "InvalidArg"
    ELSE IF obs_to_check.some /\ DOMAIN obs_to_check.inner # Stations THEN "InvalidInputShape"
    ELSE IF args.num_min < 2 THEN "InvalidArg"
    ELSE IF args.num_max <= args.num_min THEN "InvalidArg"
    ELSE IF args.num_iterations < 1 THEN "InvalidArg"
    ELSE IF args.min_elev_diff <= 0 THEN "InvalidArg"
    ELSE IF args.min_horizontal_scale <= 0 THEN "InvalidArg"
    ELSE IF args.vertical_scale <= 0 THEN "InvalidArg"
    ELSE IF args.inner_radius < 0 THEN "InvalidArg"
    ELSE IF args.outer_radius < args.inner_radius THEN "InvalidArg"
    ELSE "Ok"

\* the argument checks of sct (lines 224-312): the first error, or "Ok"
SctValidate ==
    IF DOMAIN geom # Stations THEN "InvalidInputShape"
    ELSE IF ~args.pos.single /\ DOMAIN args.pos.vec # Stations THEN "InvalidInputShape"
    ELSE IF ~args.pos.single /\ (\E k \in Stations : args.pos.vec[k] < 0) THEN "InvalidArg"
    ELSE IF ~args.neg.single /\ DOMAIN args.neg.vec # Stations THEN "InvalidInputShape"
    ELSE IF ~args.neg.single /\ (\E k \in Stations : args.neg.vec[k] < 0) THEN "InvalidArg"
    ELSE IF ~args.eps2.single /\ DOMAIN args.eps2.vec # Stations THEN "InvalidInputShape"
    ELSE IF ~args.eps2.single /\ (\E k \in Stations : args.eps2.vec[k] <= 0) THEN "InvalidArg"
    ELSE IF obs_to_check.some /\ DOMAIN obs_to_check.inner # Stations THEN "InvalidInputShape"
    ELSE IF args.num_min < 2 THEN "InvalidArg"
    ELSE IF args.num_max < args.num_min THEN "InvalidArg"
    ELSE IF args.num_iterations < 1 THEN "InvalidArg"
    ELSE IF args.min_elev_diff <= 0 THEN "InvalidArg"
    ELSE IF args.min_horizontal_scale <= 0 THEN "InvalidArg"
    ELSE IF args.vertical_scale <= 0 THEN "InvalidArg"
    ELSE IF args.inner_radius < 0 THEN "InvalidArg"
    ELSE IF args.outer_radius < args.inner_radius THEN "InvalidArg"
    ELSE "Ok"

\* the initial flags of sct (lines 314-333)
SctInitialFlags ==
    [k \in Stations |-> IF ~is_valid(elevs[k]) THEN "Invalid" ELSE InitialFlags[k]]

\* remove_flagged, on the neighbours of the pivot c within outer_radius
remove_flagged_KeepAll(f, c) ==
    get_neighbours(c, args.outer_radius, TRUE)

remove_flagged(f, c) ==
    {j \in get_neighbours(c, args.outer_radius, TRUE) : f[j] = "Pass"}

\* the orders in which the R-tree may enumerate a set of stations
Orders(S) == {o \in [1 .. Cardinality(S) -> S] : \A e \in S : \E p \in DOMAIN o : o[p] = e}

PosIn(order, e) == CHOOSE p \in DOMAIN order : order[p] = e

\* a precedes b after the stable sort of the neighbours of c by distance (line 372)
SortsBefore(c, order, a, b) ==
    \/ calc_distance_xyz(c, a) < calc_distance_xyz(c, b)
    \/ /\ calc_distance_xyz(c, a) = calc_distance_xyz(c, b)
       /\ PosIn(order, a) < PosIn(order, b)

\* lines 366-375: the neighbours of c that are Pass, cut to the num_max nearest
\* when there are more; order is the R-tree's enumeration of the neighbours
NeedsSort(f, c) == Cardinality(remove_flagged(f, c)) > args.num_max

Neighbours_NoCut(f, c, order) == remove_flagged(f, c)

Neighbours(f, c, order) ==
    LET nb == remove_flagged(f, c) IN
    IF Cardinality(nb) > args.num_max
    THEN {j \in nb : Cardinality({m \in nb : SortsBefore(c, order, m, j)}) < args.num_max}
    ELSE nb

\* The residuals d of a box are all zero when its members have one common
\* value and one common elevation (the vertical profile is then the mean,
\* lines 63-68); s_inv_d, ares, cvres and pog are then zero as well.
ZeroResiduals(B) ==
    \A a, b \in B : data[a].val = data[b].val /\ elevs[a].val = elevs[b].val

\* The sets of members k of box B that lines 403-497 can find to satisfy
\*   (cvres[k] < 0 && pog > pos[k]) || (cvres[k] >= 0 && pog > neg[k]).
\* Unless the residuals are zero the outcome of the floating-point
\* interpolation is not computed here, every outcome is allowed.  It is a
\* function of the box: oi keeps the outcome of every box computed.
\* With pog = 0 and cvres = 0 the test is pog > neg[k], which holds when neg[k]
\* is negative.  With an eps2 that is not positive the matrix inverted at line
\* 458 need not be invertible and nothing is known of the outcome.
BadEps2(B) == \E k \in B : Index(args.eps2, k) <= 0

OIVerdicts(B) ==
    IF BadEps2(B) THEN SUBSET B
    ELSE IF ZeroResiduals(B) THEN {{k \in B : Index(args.neg, k) < 0}}
    ELSE SUBSET B

\* the members of box B evaluated by the final loop for pivot c (lines 483-504)
Evaluated_Unselected(B, c) ==
    {k \in B : calc_distance_xyz(c, k) <= args.inner_radius}

Evaluated(B, c) ==
    {k \in B : Selected(k) /\ calc_distance_xyz(c, k) <= args.inner_radius}

\* The body of the station loop (lines 343-505) for station c on the state
\* st = [flags, checked, num_thrown_out, evals], given the R-tree's enumeration
\* order of the neighbours of c and the interpolation's verdict R on its box.
SctSkips(st, c) == ~Selected(c) \/ st.flags[c] # "Pass" \/ st.checked[c]

SctStation_IsolatedNotFlagged(st, c, order, R) ==
    IF SctSkips(st, c)
    THEN [st EXCEPT !.checked[c] = TRUE]
    ELSE LET B == Neighbours(st.flags, c, order) IN
         IF Cardinality(B) < args.num_min
         THEN [st EXCEPT !.checked[c] = TRUE]
         ELSE LET failed == Evaluated(B, c) \cap R IN
              [flags |-> [k \in Stations |-> IF k \in failed THEN "Fail" ELSE st.flags[k]],
               checked |-> [k \in Stations |->
                              \/ st.checked[k]
                              \/ k \in Evaluated(B, c)
                              \/ (k = c /\ \E m \in B : ~Selected(m))],
               num_thrown_out |-> st.num_thrown_out + Cardinality(failed),
               evals |-> [k \in Stations |->
                            IF k \in Evaluated(B, c) THEN st.evals[k] + 1 ELSE st.evals[k]]]

SctStation(st, c, order, R) ==
    IF SctSkips(st, c)
    THEN [st EXCEPT !.checked[c] = TRUE]
    ELSE LET B == Neighbours(st.flags, c, order) IN
         IF Cardinality(B) < args.num_min
         THEN [st EXCEPT !.checked[c] = TRUE, !.flags[c] = "Isolated"]
         ELSE LET failed == Evaluated(B, c) \cap R IN
              [flags |-> [k \in Stations |-> IF k \in failed THEN "Fail" ELSE st.flags[k]],
               checked |-> [k \in Stations |->
                              \/ st.checked[k]
                              \/ k \in Evaluated(B, c)
                              \/ (k = c /\ \E m \in B : ~Selected(m))],
               num_thrown_out |-> st.num_thrown_out + Cardinality(failed),
               evals |-> [k \in Stations |->
                            IF k \in Evaluated(B, c) THEN st.evals[k] + 1 ELSE st.evals[k]]]

SctState == [flags |-> flags, checked |-> checked, num_thrown_out |-> num_thrown_out,
             evals |-> evals]

SetSctState(st) ==
    /\ flags' = st.flags
    /\ checked' = st.checked
    /\ num_thrown_out' = st.num_thrown_out
    /\ evals' = st.evals

\* entry of sct with arguments that fail validation (lines 220-312)
SctStartError ==
    /\ pc = "start" /\ alg = "sct"
    /\ SctValidate # "Ok"
    /\ pc' = SctValidate
    /\ UNCHANGED <<inputs, query, flags, iteration, i, num_removed_last_iteration,
                   sctvars, box, init_flags, sweep_start_flags, hist>>

\* entry of sct: validation passed, initialisation (lines 220-341)
SctStart ==
    /\ pc = "start" /\ alg = "sct"
    /\ SctValidate = "Ok"
    /\ flags' = SctInitialFlags
    /\ init_flags' = SctInitialFlags
    /\ sweep_start_flags' = SctInitialFlags
    /\ iteration' = 1
    /\ i' = 0
    /\ num_thrown_out' = 0
    /\ checked' = [k \in Stations |-> FALSE]
    /\ evals' = [k \in Stations |-> 0]
    /\ pc' = "sweep"
    /\ UNCHANGED <<inputs, query, num_removed_last_iteration, oi, tree_order, box, hist>>

\* station i is skipped (lines 344-358)
SctSkip ==
    /\ pc = "sweep" /\ alg = "sct" /\ i < n
    /\ SctSkips(SctState, i)
    /\ SetSctState(SctStation(SctState, i, <<>>, {}))
    /\ box' = NoBox
    /\ i' = i + 1
    /\ UNCHANGED <<inputs, query, pc, iteration, num_removed_last_iteration,
                   oi, tree_order, init_flags, sweep_start_flags, hist>>

\* the R-tree's enumeration of the neighbours of station c: the one recorded,
\* or any order when c is queried for the first time
EnumerationOrders(c) ==
    IF c \in DOMAIN tree_order THEN {tree_order[c]}
    ELSE Orders(get_neighbours(c, args.outer_radius, TRUE))

RecordOrder(c, order) ==
    tree_order' = IF c \in DOMAIN tree_order \/ ~NeedsSort(flags, c)
                  THEN tree_order ELSE (c :> order) @@ tree_order

\* the enumeration only matters when the neighbours are sorted and cut
OrdersUsed(c) ==
    IF NeedsSort(flags, c) THEN EnumerationOrders(c)
    ELSE {CHOOSE o \in Orders(get_neighbours(c, args.outer_radius, TRUE)) : TRUE}

\* station i has too few neighbours (lines 360-380)
SctIsolated ==
    /\ pc = "sweep" /\ alg = "sct" /\ i < n
    /\ ~SctSkips(SctState, i)
    /\ \E order \in OrdersUsed(i) :
        LET B == Neighbours(flags, i, order) IN
        /\ Cardinality(B) < args.num_min
        /\ SetSctState(SctStation(SctState, i, order, {}))
        /\ RecordOrder(i, order)
        /\ box' = [pivot |-> i, members |-> B, applied |-> {}]
    /\ i' = i + 1
    /\ UNCHANGED <<inputs, query, pc, iteration, num_removed_last_iteration,
                   oi, init_flags, sweep_start_flags, hist>>

\* The box B of pivot c panics: calc_distance(..).unwrap() on a position out of
\* range (lines 127-135, 412-415).
BoxPanics(B) == \E k \in B : ~in_range[k]

\* The box B of pivot c may panic: assert!(is_valid(pog)) at line 496, when the
\* matrix inverted with an eps2 that is not positive is singular.
BoxMayPanic(B, c) == BadEps2(B) /\ Evaluated(B, c) # {}

\* station i is the pivot of a box that panics
SctPanic ==
    /\ pc = "sweep" /\ alg = "sct" /\ i < n
    /\ ~SctSkips(SctState, i)
    /\ \E order \in OrdersUsed(i) :
        LET B == Neighbours(flags, i, order) IN
        /\ Cardinality(B) >= args.num_min
        /\ BoxPanics(B) \/ BoxMayPanic(B, i)
        /\ box' = [pivot |-> i, members |-> B, applied |-> {}]
    /\ pc' = "panic"
    /\ UNCHANGED <<inputs, query, flags, iteration, i, num_removed_last_iteration, sctvars,
                   init_flags, sweep_start_flags, hist>>

\* station i is the pivot of a box (lines 360-504)
SctBox ==
    /\ pc = "sweep" /\ alg = "sct" /\ i < n
    /\ ~SctSkips(SctState, i)
    /\ \E order \in OrdersUsed(i) :
        LET B == Neighbours(flags, i, order) IN
        /\ Cardinality(B) >= args.num_min
        /\ ~BoxPanics(B)
        /\ \E R \in (IF B \in DOMAIN oi THEN {oi[B]} ELSE OIVerdicts(B)) :
            /\ oi' = IF B \in DOMAIN oi THEN oi ELSE (B :> R) @@ oi
            /\ SetSctState(SctStation(SctState, i, order, R))
        /\ RecordOrder(i, order)
        /\ box' = [pivot |-> i, members |-> B, applied |-> Evaluated(B, i)]
    /\ i' = i + 1
    /\ UNCHANGED <<inputs, query, pc, iteration, num_removed_last_iteration,
                   init_flags, sweep_start_flags, hist>>

SctEndSweep_NoBreak ==
    /\ pc = "sweep" /\ alg = "sct" /\ i = n
    /\ hist' = Append(hist, HistEntry(flags, num_thrown_out))
    /\ IF iteration >= args.num_iterations
       THEN /\ pc' = "done"
            /\ UNCHANGED <<iteration, i, num_thrown_out, checked, evals, sweep_start_flags>>
       ELSE /\ iteration' = iteration + 1
            /\ i' = 0
            /\ num_thrown_out' = 0
            /\ checked' = [k \in Stations |-> FALSE]
            /\ evals' = [k \in Stations |-> 0]
            /\ sweep_start_flags' = flags
            /\ pc' = "sweep"
    /\ box' = NoBox
    /\ UNCHANGED <<inputs, query, flags, num_removed_last_iteration, oi, tree_order, init_flags>>

\* the end of a sweep (lines 507-509) and the loop header (lines 336-341)
SctEndSweep ==
    /\ pc = "sweep" /\ alg = "sct" /\ i = n
    /\ hist' = Append(hist, HistEntry(flags, num_thrown_out))
    /\ IF num_thrown_out = 0 \/ iteration >= args.num_iterations
       THEN /\ pc' = "done"
            /\ UNCHANGED <<iteration, i, num_thrown_out, checked, evals, sweep_start_flags>>
       ELSE /\ iteration' = iteration + 1
            /\ i' = 0
            /\ num_thrown_out' = 0
            /\ checked' = [k \in Stations |-> FALSE]
            /\ evals' = [k \in Stations |-> 0]
            /\ sweep_start_flags' = flags
            /\ pc' = "sweep"
    /\ box' = NoBox
    /\ UNCHANGED <<inputs, query, flags, num_removed_last_iteration, oi, tree_order, init_flags>>

----------------------------------------------------------------------------
(* f32 arithmetic *)

\* The interpolation of sct (lines 403-497) is computed in IEEE 754 binary32:
\* a finite f32 is s * m * 2^e with s the sign, m = 0 or 2^23 <= m < 2^24, and
\* every operation rounds its exact result to the nearest such number, ties to
\* even; a result of 2^128 or more is an infinity.  Results below 2^-126
\* (subnormal numbers) do not occur in the calls explored and are taken as 0.
f32_format == [mantissa_bits |-> 24, max_exponent |-> 104, min_exponent |-> -149]

\* let w = v: Body on the value of v, which is computed once
With(v, Body(_)) == CHOOSE r \in {Body(w) : w \in {v}} : TRUE

f32(s, m, e) == [c |-> "fin", s |-> s, m |-> m, e |-> e]
f32_inf(s) == [c |-> "inf", s |-> s, m |-> 0, e |-> 0]
f32_nan == [c |-> "nan", s |-> 1, m |-> 0, e |-> 0]
f32_zero == f32(1, 0, 0)

f32_is_finite(x) == x.c = "fin"
f32_is_zero(x) == x.c = "fin" /\ x.m = 0

\* the number of bits of M, 0 <= M < 2^31
RECURSIVE BitLen(_)
BitLen(M) ==
    IF M >= 2^24 THEN 24 + BitLen(M \div 2^24)
    ELSE IF M >= 2^12 THEN 12 + BitLen(M \div 2^12)
    ELSE IF M >= 64 THEN 6 + BitLen(M \div 64)
    ELSE IF M >= 8 THEN 3 + BitLen(M \div 8)
    ELSE IF M >= 4 THEN 3 ELSE IF M >= 2 THEN 2 ELSE IF M >= 1 THEN 1 ELSE 0

\* s * m * 2^e, or the infinity or the zero it is when e is out of range
f32_ranged(s, m, e) ==
    IF e > f32_format.max_exponent THEN f32_inf(s)
    ELSE IF e < f32_format.min_exponent THEN f32(s, 0, 0)
    ELSE f32(s, m, e)

\* the f32 nearest to s * (M + t) * 2^E, for 0 <= M < 2^31 and a fraction t
\* that is 0 when sticky = 0 and in (0, 1) when sticky = 1 (then M >= 2^24)
f32_round(s, M, E, sticky) ==
    With(<<M, BitLen(M) - f32_format.mantissa_bits>>, LAMBDA a :
        IF a[1] = 0 THEN f32(s, 0, 0)
        ELSE IF a[2] <= 0 THEN f32_ranged(s, a[1] * 2^(-a[2]), E + a[2])
        ELSE With(<<a[1] \div 2^a[2], a[1] % 2^a[2], 2^(a[2] - 1)>>, LAMBDA qrh :
                With(IF \/ qrh[2] > qrh[3]
                        \/ qrh[2] = qrh[3] /\ (sticky = 1 \/ qrh[1] % 2 = 1)
                     THEN qrh[1] + 1 ELSE qrh[1],
                     LAMBDA m :
                        IF m = 2^f32_format.mantissa_bits
                        THEN f32_ranged(s, 2^(f32_format.mantissa_bits - 1), E + a[2] + 1)
                        ELSE f32_ranged(s, m, E + a[2]))))

\* an integer as f32
f32_from(v) == f32_round(IF v < 0 THEN -1 ELSE 1, Abs(v), 0, 0)

f32_neg(x) == With(x, LAMBDA a : [a EXCEPT !.s = -a.s])
f32_abs(x) == With(x, LAMBDA a : [a EXCEPT !.s = 1])

\* x + y for finite x, y with x.e >= y.e, neither of them 0: x.m * 8 and y.m
\* shifted to the same exponent, the bits of y.m shifted out remembered as sticky
f32_add_aligned(x, y) ==
    With(x.e - y.e - 3, LAMBDA shift :
    With(<<x.m * 8,
           IF shift <= 0 THEN y.m * 2^(-shift)
           ELSE IF shift >= 30 THEN 0
           ELSE y.m \div 2^shift,
           IF shift <= 0 THEN 0
           ELSE IF shift >= 30 THEN 1
           ELSE IF y.m % 2^shift = 0 THEN 0 ELSE 1>>, LAMBDA XYs :
        IF x.s = y.s THEN f32_round(x.s, XYs[1] + XYs[2], x.e - 3, XYs[3])
        ELSE IF XYs[1] = XYs[2] /\ XYs[3] = 0 THEN f32_zero
        ELSE IF XYs[1] > XYs[2]
             THEN f32_round(x.s, XYs[1] - XYs[2] - XYs[3], x.e - 3, XYs[3])
        ELSE f32_round(y.s, XYs[2] - XYs[1], x.e - 3, 0)))

f32_add(x, y) ==
    With(<<x, y>>, LAMBDA a :
        IF a[1].c = "nan" \/ a[2].c = "nan" THEN f32_nan
        ELSE IF a[1].c = "inf"
             THEN (IF a[2].c = "inf" /\ a[2].s # a[1].s THEN f32_nan ELSE a[1])
        ELSE IF a[2].c = "inf" THEN a[2]
        ELSE IF a[1].m = 0
             THEN (IF a[2].m = 0 THEN f32(IF a[1].s = a[2].s THEN a[1].s ELSE 1, 0, 0)
                   ELSE a[2])
        ELSE IF a[2].m = 0 THEN a[1]
        ELSE IF a[1].e >= a[2].e THEN f32_add_aligned(a[1], a[2])
        ELSE f32_add_aligned(a[2], a[1]))

f32_sub(x, y) == f32_add(x, f32_neg(y))

\* the product of two mantissas, 2^20 the unit, and whether bits were cut:
\* the mantissas are multiplied in halves of 12 bits
MantissaProduct(a, b) ==
    With(<<(a \div 4096) * (b \div 4096),
           (a \div 4096) * (b % 4096) + (a % 4096) * (b \div 4096),
           (a % 4096) * (b % 4096)>>, LAMBDA hml :
    With(hml[2] + (hml[3] \div 4096), LAMBDA carry :
        <<hml[1] * 16 + (carry \div 256),
          IF hml[3] % 4096 = 0 /\ carry % 256 = 0 THEN 0 ELSE 1>>))

f32_mul(x, y) ==
    With(<<x, y>>, LAMBDA a :
        IF a[1].c = "nan" \/ a[2].c = "nan" THEN f32_nan
        ELSE IF a[1].c = "inf" \/ a[2].c = "inf"
             THEN (IF f32_is_zero(a[1]) \/ f32_is_zero(a[2]) THEN f32_nan
                   ELSE f32_inf(a[1].s * a[2].s))
        ELSE IF a[1].m = 0 \/ a[2].m = 0 THEN f32(a[1].s * a[2].s, 0, 0)
        ELSE With(MantissaProduct(a[1].m, a[2].m), LAMBDA T :
                f32_round(a[1].s * a[2].s, T[1], a[1].e + a[2].e + 20, T[2])))

\* the long division of a by d, seven bits of the quotient a step: <<q, r>>
RECURSIVE LongDivision(_, _, _)
LongDivision(qr, d, steps) ==
    IF steps = 0 THEN qr
    ELSE With(qr, LAMBDA st :
            LongDivision(<<st[1] * 128 + (st[2] * 128) \div d, (st[2] * 128) % d>>,
                         d, steps - 1))

f32_div(x, y) ==
    With(<<x, y>>, LAMBDA a :
        IF a[1].c = "nan" \/ a[2].c = "nan" THEN f32_nan
        ELSE IF a[1].c = "inf"
             THEN (IF a[2].c = "inf" THEN f32_nan ELSE f32_inf(a[1].s * a[2].s))
        ELSE IF a[2].c = "inf" THEN f32(a[1].s * a[2].s, 0, 0)
        ELSE IF a[2].m = 0
             THEN (IF a[1].m = 0 THEN f32_nan ELSE f32_inf(a[1].s * a[2].s))
        ELSE IF a[1].m = 0 THEN f32(a[1].s * a[2].s, 0, 0)
        ELSE With(LongDivision(<<a[1].m \div a[2].m, a[1].m % a[2].m>>, a[2].m, 4),
                  LAMBDA qr :
                    f32_round(a[1].s * a[2].s, qr[1], a[1].e - a[2].e - 28,
                              IF qr[2] = 0 THEN 0 ELSE 1)))

\* the sign of x: -1, 0 or 1
f32_signum(x) == IF x.c = "fin" /\ x.m = 0 THEN 0 ELSE x.s

\* |a| < |b| for two numbers that are not 0 and not NaN
f32_below(a, b) ==
    IF a.c = "inf" THEN FALSE
    ELSE IF b.c = "inf" THEN TRUE
    ELSE a.e < b.e \/ (a.e = b.e /\ a.m < b.m)

\* x < y; false when either is NaN
f32_lt(x, y) ==
    With(<<x, y>>, LAMBDA a :
        IF a[1].c = "nan" \/ a[2].c = "nan" THEN FALSE
        ELSE IF f32_signum(a[1]) # f32_signum(a[2]) THEN f32_signum(a[1]) < f32_signum(a[2])
        ELSE IF f32_signum(a[1]) = 0 THEN FALSE
        ELSE IF f32_signum(a[1]) = 1 THEN f32_below(a[1], a[2])
        ELSE f32_below(a[2], a[1]))

f32_le(x, y) == With(<<x, y>>, LAMBDA a :
                    a[1].c # "nan" /\ a[2].c # "nan" /\ ~f32_lt(a[2], a[1]))

\* f32::max: the other operand when one is NaN
f32_max(x, y) == With(<<x, y>>, LAMBDA a :
                    IF a[1].c = "nan" THEN a[2] ELSE IF a[2].c = "nan" THEN a[1]
                    ELSE IF f32_lt(a[1], a[2]) THEN a[2] ELSE a[1])

\* a ratio of two integers as the f32 nearest to it (a literal such as 0.5)
f32_lit(num, den) == f32_div(f32_from(num), f32_from(den))

\* the literals of the code
f32_one == f32_from(1)
f32_minus_one == f32_from(-1)
f32_half == f32_lit(1, 2)
f32_minus_half == f32_lit(-1, 2)
f32_0_05 == f32_lit(5, 100)
f32_0_10 == f32_lit(10, 100)
f32_0_95 == f32_lit(95, 100)
f32_0_01 == f32_lit(1, 100)

\* iter.sum::<f32>() of xs[1 .. k]
RECURSIVE f32_sum(_, _)
f32_sum(xs, k) == IF k = 0 THEN f32_zero ELSE f32_add(f32_sum(xs, k - 1), xs[k])

\* the largest integer <= x, for a finite x below 2^30 in magnitude
f32_floor(x) ==
    With(x, LAMBDA a :
        IF a.m = 0 THEN 0
        ELSE IF a.e >= 0 THEN a.s * a.m * 2^a.e
        ELSE IF -a.e >= f32_format.mantissa_bits THEN (IF a.s = 1 THEN 0 ELSE -1)
        ELSE IF a.s = 1 THEN a.m \div 2^(-a.e)
        ELSE IF a.m % 2^(-a.e) = 0 THEN -(a.m \div 2^(-a.e))
        ELSE -(a.m \div 2^(-a.e)) - 1)

\* f32::exp.  libm's expf is not part of the repository; it is computed here as
\* 2^k * e^r with k the integer nearest to x / ln 2, r = x - k * ln 2 and e^r
\* by its Taylor polynomial of degree 7, which agrees with a correctly rounded
\* exp to within a few units in the last place.
LN2_HI == f32(1, 11629056, -24)
LN2_LO == f32(1, 12566158, -43)
INV_LN2 == f32(1, 12102203, -23)

RECURSIVE ExpPoly(_, _)
ExpPoly(r, j) ==
    IF j = 8 THEN f32_one
    ELSE f32_add(f32_one, f32_mul(f32_div(r, f32_from(j)), ExpPoly(r, j + 1)))

f32_exp(x) ==
    With(x, LAMBDA a :
        IF a.c = "nan" THEN f32_nan
        ELSE IF a.c = "inf" THEN (IF a.s = 1 THEN a ELSE f32_zero)
        ELSE IF a.m = 0 THEN f32_one
        ELSE IF f32_lt(f32_from(89), a) THEN f32_inf(1)
        ELSE IF f32_lt(a, f32_from(-87)) THEN f32_zero
        ELSE With(f32_floor(f32_add(f32_mul(a, INV_LN2), f32_half)), LAMBDA k :
             With(f32_sub(f32_sub(a, f32_mul(f32_from(k), LN2_HI)),
                          f32_mul(f32_from(k), LN2_LO)), LAMBDA r :
             With(ExpPoly(r, 1), LAMBDA p : f32_round(p.s, p.m, p.e + k, 0)))))

----------------------------------------------------------------------------
(* sct: the box of a pivot computed in f32 *)

\* In the calls computed in f32 the value and the elevation of a station are
\* f32 numbers; pos, neg and the scales are whole numbers and eps2 is counted in
\* halves (the test's 0.5 is 1).
Eps2(k) == f32_lit(Index(args.eps2, k), 2)

\* Iterator::collect, Mat::from_fn: the elements computed once, as a sequence
collect(xs) == SubSeq(xs, 1, Len(xs))

\* compute_quantile (lines 108-141) in f32: the assertion that fails ("none"
\* when the call returns) and the value returned.  new_array is the finite
\* entries sorted (lines 109-114), index the floor and the ceiling of
\* quantile * (n - 1) (lines 121-122), q the lower and the upper quantile
\* (lines 125-126) and f the weight of the upper value (line 132).
compute_quantile_f32(quantile, array) ==
    With(SortSeq(SelectSeq(array, f32_is_finite), f32_lt), LAMBDA new_array :
        IF Len(new_array) = 0 THEN [failed |-> "n > 0", exact_q |-> f32_nan]
        ELSE
    With(f32_mul(quantile, f32_from(Len(new_array) - 1)), LAMBDA at :
    With(<<f32_floor(at), -f32_floor(f32_neg(at))>>, LAMBDA index :
        IF index[1] = index[2]
        THEN [failed |-> "none", exact_q |-> new_array[index[1] + 1]]
        ELSE
    With(<<f32_div(f32_from(index[1]), f32_from(Len(new_array) - 1)),
           f32_div(f32_from(index[2]), f32_from(Len(new_array) - 1))>>, LAMBDA q :
    With(f32_div(f32_sub(quantile, q[1]), f32_sub(q[2], q[1])), LAMBDA f :
    With(f32_add(new_array[index[1] + 1],
                 f32_mul(f32_sub(new_array[index[2] + 1], new_array[index[1] + 1]), f)),
         LAMBDA exact_q :
        IF \/ ~f32_lt(q[1], q[2])
           \/ ~f32_le(q[1], quantile)
           \/ ~f32_le(f32_zero, f)
           \/ ~f32_le(f, f32_one)
           \/ ~f32_is_finite(exact_q)
        THEN [failed |-> "compute_quantile", exact_q |-> f32_nan]
        ELSE [failed |-> "none", exact_q |-> exact_q]))))))

\* lines 81-91: the slopes of the pairs i < j, in the order the code pushes them
RECURSIVE PairsFrom(_, _, _)
PairsFrom(p, q, len) ==
    IF p >= len THEN <<>>
    ELSE IF q > len THEN PairsFrom(p + 1, p + 2, len)
    ELSE <<<<p, q>>>> \o PairsFrom(p, q + 1, len)

PairSlopes_f32(elevs_box, values_box) ==
    With(PairsFrom(1, 2, Len(values_box)), LAMBDA pairs :
        collect([k \in DOMAIN pairs |->
            With(f32_sub(elevs_box[pairs[k][1]], elevs_box[pairs[k][2]]), LAMBDA dz :
                IF f32_lt(f32_abs(dz), f32_one) THEN f32_zero
                ELSE f32_div(f32_sub(values_box[pairs[k][1]], values_box[pairs[k][2]]),
                             dz))]))

gamma_f32 == f32_lit(-65, 10000)

\* compute_vertical_profile_theil_sen (lines 53-105) in f32: the assertion of
\* compute_quantile that fails ("none" when the call returns) and the profile
VerticalProfile_Mean(elevs_box, values_box, num_min_prof, min_elev_diff) ==
    With(f32_div(f32_sum(values_box, Len(values_box)), f32_from(Len(values_box))),
         LAMBDA mean_t :
            [failed |-> "none", profile |-> [p \in DOMAIN values_box |-> mean_t]])

VerticalProfile(elevs_box, values_box, num_min_prof, min_elev_diff) ==
    IF \A p, q \in DOMAIN elevs_box : elevs_box[p] = elevs_box[q]
    THEN With(f32_div(f32_sum(values_box, Len(values_box)), f32_from(Len(values_box))),
              LAMBDA mean_t :
                [failed |-> "none", profile |-> [p \in DOMAIN values_box |-> mean_t]])
    ELSE
    With(<<compute_quantile_f32(f32_0_05, elevs_box),
           compute_quantile_f32(f32_0_95, elevs_box)>>, LAMBDA z :
        IF z[1].failed # "none" THEN [failed |-> z[1].failed, profile |-> <<>>]
        ELSE IF z[2].failed # "none" THEN [failed |-> z[2].failed, profile |-> <<>>]
        ELSE
    With(IF \/ Len(values_box) < num_min_prof
            \/ f32_lt(f32_sub(z[2].exact_q, z[1].exact_q), f32_from(min_elev_diff))
         THEN [failed |-> "none", exact_q |-> gamma_f32]
         ELSE compute_quantile_f32(f32_half, PairSlopes_f32(elevs_box, values_box)),
         LAMBDA m_median :
        IF m_median.failed # "none" THEN [failed |-> m_median.failed, profile |-> <<>>]
        ELSE
    With(compute_quantile_f32(f32_half,
            collect([p \in DOMAIN values_box |->
                f32_sub(values_box[p], f32_mul(m_median.exact_q, elevs_box[p]))])),
         LAMBDA q_median :
        IF q_median.failed # "none" THEN [failed |-> q_median.failed, profile |-> <<>>]
        ELSE [failed |-> "none",
              profile |-> collect([p \in DOMAIN elevs_box |->
                            f32_add(q_median.exact_q,
                                    f32_mul(m_median.exact_q, elevs_box[p]))])])))

\* lines 360-384: the box of pivot c under flags f as the sequence of stations the
\* code builds: the R-tree's enumeration without the flagged stations, sorted by
\* distance (stably) and cut to num_max when longer
BoxSeq(f, c, order) ==
    LET kept == SelectSeq(order, LAMBDA j : f[j] = "Pass")
        nb == {kept[p] : p \in DOMAIN kept}
    IN  IF Len(kept) > args.num_max
        THEN collect([r \in 1 .. args.num_max |->
                CHOOSE j \in nb : Cardinality({m \in nb : SortsBefore(c, order, m, j)}) = r - 1])
        ELSE kept

Members(b) == {b[p] : p \in DOMAIN b}

\* invert_matrix (lines 143-146).  The LU factorisation of the faer crate is not
\* part of the repository; the inverse is computed here by Gauss-Jordan
\* elimination with partial pivoting in f32, on the rows of [S | I]: in column
\* c the pivot p is the first row of the largest magnitude.  The two agree up
\* to the rounding of the last places.
RECURSIVE GaussJordan(_, _)
GaussJordan(A, c) ==
    With(A, LAMBDA M :
        IF c > Len(M) THEN M
        ELSE
        With(CHOOSE r \in c .. Len(M) :
                /\ \A r2 \in c .. Len(M) : ~f32_lt(f32_abs(M[r][c]), f32_abs(M[r2][c]))
                /\ \A r2 \in c .. (r - 1) : f32_lt(f32_abs(M[r2][c]), f32_abs(M[r][c])),
             LAMBDA p :
        With(collect([r \in DOMAIN M |->
                IF r = c THEN M[p] ELSE IF r = p THEN M[c] ELSE M[r]]), LAMBDA swapped :
        With(collect([k \in DOMAIN swapped[c] |-> f32_div(swapped[c][k], swapped[c][c])]),
             LAMBDA pivot_row :
            GaussJordan(
                collect([r \in DOMAIN M |->
                    IF r = c THEN pivot_row
                    ELSE collect([k \in DOMAIN pivot_row |->
                            f32_sub(swapped[r][k], f32_mul(swapped[r][c], pivot_row[k]))])]),
                c + 1)))))

invert_matrix(input) ==
    With(Len(input), LAMBDA len :
    With(GaussJordan(collect([r \in 1 .. len |->
                        collect([k \in 1 .. (2 * len) |->
                            IF k <= len THEN input[r][k]
                            ELSE IF k - len = r THEN f32_one ELSE f32_zero])]), 1),
         LAMBDA R :
            collect([r \in 1 .. len |-> collect([k \in 1 .. len |-> R[r][k + len]])])))

\* lines 412-415: util::calc_distance between two members, in km
disth(a, b) == f32_from(calc_distance_xyz(a, b))
\* lines 416-418
distz(a, b) == f32_abs(f32_sub(elevs[a].val, elevs[b].val))

\* lines 420-430: for each member the quantile 0.10 of its distances to the others
dh(b) ==
    collect([p \in DOMAIN b |->
        compute_quantile_f32(f32_0_10,
            collect([q \in 1 .. (Len(b) - 1) |->
                disth(b[p], b[IF q < p THEN q ELSE q + 1])]))])

\* lines 432-434, dhs being dh(b)
dh_mean(b, dhs) ==
    f32_max(f32_from(args.min_horizontal_scale),
            f32_div(f32_sum(collect([p \in DOMAIN b |-> dhs[p].exact_q]), Len(b)),
                    f32_from(Len(b))))

\* lines 436-446: the matrix s with the weighted diagonal, scale being dh_mean
WeightedS(b, scale) ==
    With(<<scale, f32_from(args.vertical_scale)>>, LAMBDA scales :
        collect([p \in DOMAIN b |-> collect([q \in DOMAIN b |->
            With(<<f32_div(disth(b[p], b[q]), scales[1]),
                   f32_div(distz(b[p], b[q]), scales[2])>>, LAMBDA hz :
            With(f32_exp(f32_sub(f32_mul(f32_minus_half, f32_mul(hz[1], hz[1])),
                                 f32_mul(f32_half, f32_mul(hz[2], hz[2])))), LAMBDA value :
                IF p = q THEN f32_add(value, Eps2(b[p])) ELSE value))])]))

\* sum over j of x[j] * y[j], left to right from 0
RECURSIVE Dot(_, _, _)
Dot(x, y, k) == IF k = 0 THEN f32_zero ELSE f32_add(Dot(x, y, k - 1), f32_mul(x[k], y[k]))

\* lines 448-480 and 493: the interpolation of the box b (a sequence of
\* stations), given its vertical profile and the matrix sw of lines 436-446
Interpolation(b, vertical_profile, sw) ==
    With(collect([p \in DOMAIN b |-> f32_sub(data[b[p]].val, vertical_profile[p])]), LAMBDA d :
    With(invert_matrix(sw), LAMBDA s_inv :
    With(collect([p \in DOMAIN b |-> collect([q \in DOMAIN b |->
            IF p = q THEN f32_sub(sw[p][q], Eps2(b[p])) ELSE sw[p][q]])]), LAMBDA s :
    With(collect([p \in DOMAIN b |-> Dot(s_inv[p], d, Len(b))]), LAMBDA s_inv_d :
    With(collect([p \in DOMAIN b |-> Dot(s[p], s_inv_d, Len(b))]), LAMBDA ares_temp :
    With(collect([p \in DOMAIN b |-> f32_div(f32_one, s_inv[p][p])]), LAMBDA z_inv :
    With(collect([p \in DOMAIN b |-> f32_sub(ares_temp[p], d[p])]), LAMBDA ares :
    With(collect([p \in DOMAIN b |->
            f32_mul(f32_mul(f32_minus_one, z_inv[p]), s_inv_d[p])]), LAMBDA cvres :
    With(collect([p \in DOMAIN b |-> f32_mul(f32_mul(d[p], f32_minus_one), ares[p])]),
         LAMBDA terms :
    With(f32_max(f32_0_01, f32_div(f32_sum(terms, Len(b)), f32_from(Len(b)))), LAMBDA sig2o :
        [residual |-> d, cvres |-> cvres, analysis |-> ares, sig2o |-> sig2o,
         pog |-> collect([p \in DOMAIN b |->
                    f32_div(f32_mul(cvres[p], ares[p]), sig2o)])]))))))))))

\* the box b of a pivot computed (lines 386-480): the assertion of
\* compute_quantile that fails before the final loop, or "none" with cvres and pog
BoxOI(b) ==
    With(<<collect([p \in DOMAIN b |-> elevs[b[p]].val]),
           collect([p \in DOMAIN b |-> data[b[p]].val])>>, LAMBDA box_of :
    With(VerticalProfile(box_of[1], box_of[2], args.num_min_prof, args.min_elev_diff),
         LAMBDA vp :
        IF vp.failed # "none" THEN [failed |-> vp.failed, cvres |-> <<>>, pog |-> <<>>]
        ELSE
    With(dh(b), LAMBDA dhs :
        IF \E p \in DOMAIN dhs : dhs[p].failed # "none"
        THEN [failed |-> dhs[CHOOSE p \in DOMAIN dhs :
                                /\ dhs[p].failed # "none"
                                /\ \A q \in 1 .. (p - 1) : dhs[q].failed = "none"].failed,
              cvres |-> <<>>, pog |-> <<>>]
        ELSE
    With(WeightedS(b, dh_mean(b, dhs)), LAMBDA sw :
    With(Interpolation(b, vp.profile, sw), LAMBDA r :
        [failed |-> "none", cvres |-> r.cvres, pog |-> r.pog])))))

\* lines 496-497: the test of the member at position p of the box b, with the
\* thresholds of station b[p]
Rejects_LocalIndex(b, r, p) ==
    \/ f32_lt(r.cvres[p], f32_zero) /\ f32_lt(f32_from(Index(args.pos, p - 1)), r.pog[p])
    \/ f32_le(f32_zero, r.cvres[p]) /\ f32_lt(f32_from(Index(args.neg, p - 1)), r.pog[p])

Rejects(b, r, p) ==
    \/ f32_lt(r.cvres[p], f32_zero) /\ f32_lt(f32_from(Index(args.pos, b[p])), r.pog[p])
    \/ f32_le(f32_zero, r.cvres[p]) /\ f32_lt(f32_from(Index(args.neg, b[p])), r.pog[p])

\* the members of the box b that satisfy the test, r being BoxOI(b)
Rejected(b, r) == {b[p] : p \in {p \in DOMAIN b : Rejects(b, r, p)}}

\* the assertion that fails in the box b of pivot c, or "none": n > 0 or another
\* assertion of compute_quantile (lines 118-138), or is_valid(pog) (line 494)
\* for a member the final loop evaluates; r is BoxOI(b)
FailedAssertion(b, r, c) ==
    IF r.failed # "none" THEN r.failed
    ELSE IF \E p \in DOMAIN b : b[p] \in Evaluated(Members(b), c) /\ ~f32_is_finite(r.pog[p])
    THEN "is_valid(pog)"
    ELSE "none"

\* station i is the pivot of a box, the interpolation computed (lines 360-504);
\* box keeps the sequence of the members and their cvres and pog.  The members
\* of an uncut box are in the R-tree's enumeration order as well, and sums in
\* f32 depend on the order of their terms: the enumeration of the neighbours of
\* i is kept in every case.
SctBoxOI ==
    /\ pc = "sweep" /\ alg = "sct" /\ i < n
    /\ ~SctSkips(SctState, i)
    /\ \E order \in EnumerationOrders(i) :
        \E b \in {BoxSeq(flags, i, order)} :
            /\ Len(b) >= args.num_min
            /\ ~BoxPanics(Members(b))
            /\ \E r \in {BoxOI(b)} :
                /\ FailedAssertion(b, r, i) = "none"
                /\ \E rejected \in {Rejected(b, r)} :
                    /\ oi' = (Members(b) :> rejected) @@ oi
                    /\ SetSctState(SctStation(SctState, i, order, rejected))
                /\ box' = [pivot |-> i, members |-> Members(b),
                           applied |-> Evaluated(Members(b), i), seq |-> b,
                           assertion |-> "none", cvres |-> r.cvres, pog |-> r.pog]
            /\ tree_order' = IF i \in DOMAIN tree_order THEN tree_order
                              ELSE (i :> order) @@ tree_order
    /\ i' = i + 1
    /\ UNCHANGED <<inputs, query, pc, iteration, num_removed_last_iteration,
                   init_flags, sweep_start_flags, hist>>

\* station i is the pivot of a box in which an assertion fails
SctPanicOI ==
    /\ pc = "sweep" /\ alg = "sct" /\ i < n
    /\ ~SctSkips(SctState, i)
    /\ \E order \in EnumerationOrders(i) :
        \E b \in {BoxSeq(flags, i, order)} :
            /\ Len(b) >= args.num_min
            /\ ~BoxPanics(Members(b))
            /\ \E failed \in {FailedAssertion(b, BoxOI(b), i)} :
                /\ failed # "none"
                /\ box' = [pivot |-> i, members |-> Members(b), applied |-> {}, seq |-> b,
                           assertion |-> failed, cvres |-> <<>>, pog |-> <<>>]
            /\ tree_order' = IF i \in DOMAIN tree_order THEN tree_order
                              ELSE (i :> order) @@ tree_order
    /\ pc' = "panic"
    /\ UNCHANGED <<inputs, query, flags, iteration, i, num_removed_last_iteration,
                   num_thrown_out, checked, oi, evals, init_flags, sweep_start_flags, hist>>

----------------------------------------------------------------------------
(* The calls explored *)

MinStd(a, b) == [num |-> a, den |-> b]

\* station coordinates, the leftmost station at 0
Positions == {g \in [0 .. (MaxN - 1) -> 0 .. MaxPos] : \E k \in 0 .. (MaxN - 1) : g[k] = 0}

\* at most one station has an absent or non-finite value or a non-finite elevation
Defects == {"none", "None", "NaN", "NaNElev"}

DataOf(vals, bad, kind) ==
    [k \in DOMAIN vals |->
        IF k = bad /\ kind = "None" THEN None
        ELSE IF k = bad /\ kind = "NaN" THEN Some(NaN)
        ELSE Some(F(vals[k]))]

ElevsOf(vals, bad, kind) ==
    [k \in DOMAIN vals |-> IF k = bad /\ kind = "NaNElev" THEN NaN ELSE F(0)]

\* obs_to_check: absent, or a mask that deselects one station
Masks == {[some |-> FALSE, inner |-> [k \in 0 .. (MaxN - 1) |-> TRUE]]}
         \cup {[some |-> TRUE, inner |-> [k \in 0 .. (MaxN - 1) |-> k # d]] :
                 d \in 0 .. (MaxN - 1)}

BuddyArgs ==
    {[radii |-> Single(1), nums_min |-> Single(m), threshold |-> 1,
      max_elev_diff |-> 0, elev_gradient |-> 0, min_std |-> MinStd(1, 10),
      num_iterations |-> it] : m \in 1 .. 2, it \in 1 .. MaxIter}

SctArgs ==
    {[num_min |-> m[1], num_max |-> m[2], inner_radius |-> ir, outer_radius |-> 1,
      num_iterations |-> it, num_min_prof |-> 0, min_elev_diff |-> 100,
      min_horizontal_scale |-> 10000, vertical_scale |-> 200,
      pos |-> Single(2), neg |-> Single(2), eps2 |-> Single(1)] :
        m \in {<<2, 2>>, <<2, 3>>, <<3, 3>>}, ir \in 0 .. 1, it \in {1, MaxIter}}
    \cup
    {[num_min |-> 3, num_max |-> 2, inner_radius |-> 1, outer_radius |-> 1,
      num_iterations |-> 1, num_min_prof |-> 0, min_elev_diff |-> 100,
      min_horizontal_scale |-> 10000, vertical_scale |-> 200,
      pos |-> Single(2), neg |-> Single(2), eps2 |-> Single(1)]}

InitCommon ==
    /\ pc = "start"
    /\ flags = <<>> /\ init_flags = <<>> /\ sweep_start_flags = <<>>
    /\ iteration = 0 /\ i = 0
    /\ num_removed_last_iteration = 0 /\ num_thrown_out = 0
    /\ checked = <<>> /\ evals = <<>> /\ oi = <<>> /\ tree_order = <<>>
    /\ box = NoBox /\ hist = <<>>
    /\ query = NoQuery

Init ==
    /\ n = MaxN
    /\ geom \in Positions
    /\ in_range = [k \in 0 .. (MaxN - 1) |-> TRUE]
    /\ obs_to_check \in Masks
    /\ \E vals \in [0 .. (MaxN - 1) -> 0 .. MaxVal], bad \in 0 .. (MaxN - 1), kind \in Defects :
        /\ kind = "none" => bad = 0
        /\ data = DataOf(vals, bad, kind)
        /\ elevs = ElevsOf(vals, bad, kind)
        /\ \/ alg = "buddy" /\ args \in BuddyArgs /\ kind # "NaNElev"
           \/ alg = "sct" /\ args \in SctArgs
              /\ vals[0] = 0 /\ \A k \in DOMAIN vals : vals[k] <= 1
    /\ InitCommon

Next ==
    \/ BuddyStart
    \/ BuddyStation
    \/ BuddyEndSweep
    \/ SctStartError
    \/ SctStart
    \/ SctSkip
    \/ SctIsolated
    \/ SctBox
    \/ SctEndSweep

Spec == Init /\ [][Next]_vars

\* tests::test_buddy_check: ten stations on a line at one latitude and elevation 0,
\* every pair within the radius.  Values are counted in tenths (0.1 is 1, 1.0 is
\* 10), so min_std = 0.01 is a tenth of the unit; elev_gradient only multiplies
\* elevation differences, which are all 0.  The calls explored vary the values of
\* stations 8 and 9, nums_min and num_iterations around the test's.
BUDDY_N == 10

ScenarioArgs ==
    {[radii |-> Single(10000), nums_min |-> Single(m), threshold |-> 1,
      max_elev_diff |-> 200, elev_gradient |-> -65, min_std |-> MinStd(1, 10),
      num_iterations |-> it] : m \in 1 .. 2, it \in 1 .. 3}

InitScenario ==
    /\ alg = "buddy"
    /\ n = BUDDY_N
    /\ geom = [k \in 0 .. (BUDDY_N - 1) |-> k]
    /\ elevs = [k \in 0 .. (BUDDY_N - 1) |-> F(0)]
    /\ in_range = [k \in 0 .. (BUDDY_N - 1) |-> TRUE]
    /\ \E v8 \in {0, 1, 10}, v9 \in {0, 1, 10} :
        data = [k \in 0 .. (BUDDY_N - 1) |->
                   Some(F(IF k = 8 THEN v8 ELSE IF k = 9 THEN v9 ELSE 0))]
    /\ obs_to_check = [some |-> FALSE, inner |-> [k \in 0 .. (BUDDY_N - 1) |-> TRUE]]
    /\ args \in ScenarioArgs
    /\ InitCommon

NextScenario ==
    \/ BuddyStart
    \/ BuddyStation
    \/ BuddyEndSweep

SpecScenario == InitScenario /\ [][NextScenario]_vars

\* Calls whose arguments the entry checks have to deal with: vectors, a mask
\* and a tree whose lengths differ from data.len(), argument values on and
\* beyond the limits of lines 224-312, positions out of range.  Up to two
\* arguments deviate from a valid call at a time.
InputN == 2

Lengths == {InputN - 1, InputN, InputN + 1}

\* per-station vectors of the lengths explored: all entries v, or entry 0 is w
Vecs(v, w) ==
    UNION {{Vec([k \in 0 .. (len - 1) |-> v]),
            Vec([k \in 0 .. (len - 1) |-> IF k = 0 THEN w ELSE v])} : len \in Lengths}

InputTrees ==
    {[k \in 0 .. (len - 1) |-> k] : len \in Lengths} \cup {[k \in 0 .. (InputN - 1) |-> 2 * k]}

InputMasks ==
    {[some |-> FALSE, inner |-> [k \in 0 .. (InputN - 1) |-> TRUE]]}
    \cup {[some |-> TRUE, inner |-> [k \in 0 .. (len - 1) |-> k # 0]] : len \in Lengths}

InputData ==
    {[k \in 0 .. (InputN - 1) |-> Some(F(0))],
     [k \in 0 .. (InputN - 1) |-> Some(F(k))],
     [k \in 0 .. (InputN - 1) |-> IF k = 0 THEN None ELSE Some(F(0))]}

BaseSctArgs ==
    [num_min |-> 2, num_max |-> 2, inner_radius |-> 0, outer_radius |-> 1,
     num_iterations |-> 2, num_min_prof |-> 0, min_elev_diff |-> 100,
     min_horizontal_scale |-> 10000, vertical_scale |-> 200,
     pos |-> Single(2), neg |-> Single(2), eps2 |-> Single(1)]

SctDeviations(a) ==
    {a,
     [a EXCEPT !.num_min = 1], [a EXCEPT !.num_max = 1], [a EXCEPT !.num_max = 3],
     [a EXCEPT !.num_iterations = 0],
     [a EXCEPT !.min_elev_diff = 0], [a EXCEPT !.min_horizontal_scale = 0],
     [a EXCEPT !.vertical_scale = 0],
     [a EXCEPT !.inner_radius = -1], [a EXCEPT !.inner_radius = 1],
     [a EXCEPT !.inner_radius = 2], [a EXCEPT !.outer_radius = 0],
     [a EXCEPT !.pos = Single(-1)], [a EXCEPT !.pos = Single(0)],
     [a EXCEPT !.neg = Single(-1)], [a EXCEPT !.neg = Single(0)],
     [a EXCEPT !.eps2 = Single(0)]}
    \cup {[a EXCEPT !.pos = v] : v \in Vecs(2, -1) \cup Vecs(0, 0)}
    \cup {[a EXCEPT !.neg = v] : v \in Vecs(2, -1)}
    \cup {[a EXCEPT !.eps2 = v] : v \in Vecs(1, 0)}

InputSctArgs == UNION {SctDeviations(a) : a \in SctDeviations(BaseSctArgs)}

BaseBuddyArgs ==
    [radii |-> Single(1), nums_min |-> Single(1), threshold |-> 1,
     max_elev_diff |-> 0, elev_gradient |-> 0, min_std |-> MinStd(1, 10),
     num_iterations |-> 2]

BuddyDeviations(a) ==
    {a, [a EXCEPT !.num_iterations = 0], [a EXCEPT !.nums_min = Single(2)]}
    \cup {[a EXCEPT !.radii = v] : v \in Vecs(1, 4)}
    \cup {[a EXCEPT !.nums_min = v] : v \in Vecs(1, 0)}

InputBuddyArgs == UNION {BuddyDeviations(a) : a \in BuddyDeviations(BaseBuddyArgs)}

InitInputs ==
    /\ n = InputN
    /\ geom \in InputTrees
    /\ elevs = [k \in DOMAIN geom |-> F(0)]
    /\ in_range \in {[k \in DOMAIN geom |-> TRUE], [k \in DOMAIN geom |-> k # 0]}
    /\ data \in InputData
    /\ obs_to_check \in InputMasks
    /\ \/ alg = "buddy" /\ args \in InputBuddyArgs
       \/ alg = "sct" /\ args \in InputSctArgs
    /\ InitCommon

NextInputs ==
    \/ BuddyStart
    \/ BuddyStation
    \/ BuddyPanic
    \/ BuddyEndSweep
    \/ SctStartError
    \/ SctStart
    \/ SctSkip
    \/ SctIsolated
    \/ SctBox
    \/ SctPanic
    \/ SctEndSweep

SpecInputs == InitInputs /\ [][NextInputs]_vars

\* Direct queries of a tree of MaxN points, at the coordinates of one of them.
InitTree ==
    /\ alg = "tree"
    /\ n = MaxN
    /\ geom \in [0 .. (MaxN - 1) -> 0 .. MaxPos]
    /\ elevs = [k \in 0 .. (MaxN - 1) |-> F(0)]
    /\ in_range = [k \in 0 .. (MaxN - 1) |-> TRUE]
    /\ data = [k \in 0 .. (MaxN - 1) |-> Some(F(0))]
    /\ obs_to_check = [some |-> FALSE, inner |-> [k \in 0 .. (MaxN - 1) |-> TRUE]]
    /\ args = [radius |-> 0]
    /\ InitCommon

\* one call of get_neighbours_with_distance (lines 70-91)
TreeQuery ==
    /\ alg = "tree"
    /\ \E c \in DOMAIN geom, radius \in 0 .. MaxRadius, include_match \in BOOLEAN :
        \E order \in Orders(get_neighbours(c, radius, include_match)) :
            query' = [at |-> c, radius |-> radius, include_match |-> include_match]
                        @@ get_neighbours_with_distance(c, radius, include_match, order)
    /\ pc' = "done"
    /\ UNCHANGED <<inputs, flags, iteration, i, num_removed_last_iteration, sctvars,
                   box, init_flags, sweep_start_flags, hist>>

NextTree == TreeQuery

SpecTree == InitTree /\ [][NextTree]_vars

\* Direct calls of compute_quantile: quantiles in twentieths, arrays of up to
\* MaxLen entries.
Quantiles == {Frac(a, 20) : a \in 0 .. 20}

Arrays == UNION {[1 .. len -> {NaN} \cup {F(v) : v \in 0 .. MaxArrayVal}] : len \in 1 .. MaxLen}

InitQuantile ==
    /\ alg = "compute_quantile"
    /\ n = 0
    /\ geom = <<>> /\ elevs = <<>> /\ in_range = <<>> /\ data = <<>>
    /\ obs_to_check = [some |-> FALSE, inner |-> <<>>]
    /\ \E quantile \in Quantiles, array \in Arrays :
        args = [quantile |-> quantile, array |-> array]
    /\ InitCommon

QuantileCall ==
    /\ alg = "compute_quantile" /\ pc = "start"
    /\ ~QuantilePanics(args.quantile, args.array)
    /\ query' = [exact_q |-> compute_quantile(args.quantile, args.array)]
    /\ pc' = "done"
    /\ UNCHANGED <<inputs, flags, iteration, i, num_removed_last_iteration, sctvars,
                   box, init_flags, sweep_start_flags, hist>>

QuantilePanic ==
    /\ alg = "compute_quantile" /\ pc = "start"
    /\ QuantilePanics(args.quantile, args.array)
    /\ pc' = "panic"
    /\ UNCHANGED <<inputs, query, flags, iteration, i, num_removed_last_iteration,
                   sctvars, box, init_flags, sweep_start_flags, hist>>

NextQuantile ==
    \/ QuantileCall
    \/ QuantilePanic

SpecQuantile == InitQuantile /\ [][NextQuantile]_vars

\* Calls of buddy_check on three stations within each other's radius, with
\* elevations that differ: max_elev_diff below, at and above 0, elev_gradient
\* of either sign, min_std 1 and 0.1.
ElevArgs ==
    {[radii |-> Single(MaxRadius), nums_min |-> Single(m), threshold |-> 1,
      max_elev_diff |-> med, elev_gradient |-> g, min_std |-> MinStd(1, s),
      num_iterations |-> 2] : m \in 1 .. 2, med \in {-1, 0, 1}, g \in {-1, 1}, s \in {1, 10}}

InitElev ==
    /\ alg = "buddy"
    /\ n = MaxN
    /\ geom = [k \in 0 .. (MaxN - 1) |-> k]
    /\ elevs \in [0 .. (MaxN - 1) -> {F(e) : e \in 0 .. 2}]
    /\ in_range = [k \in 0 .. (MaxN - 1) |-> TRUE]
    /\ \E vals \in [0 .. (MaxN - 1) -> 0 .. MaxVal] :
        data = [k \in 0 .. (MaxN - 1) |-> Some(F(vals[k]))]
    /\ obs_to_check = [some |-> FALSE, inner |-> [k \in 0 .. (MaxN - 1) |-> TRUE]]
    /\ args \in ElevArgs
    /\ InitCommon

NextElev ==
    \/ BuddyStart
    \/ BuddyStation
    \/ BuddyEndSweep

SpecElev == InitElev /\ [][NextElev]_vars

\* Direct calls of compute_vertical_profile_theil_sen on 2 .. MaxN points:
\* elevations in half metres up to MaxElev / 2, values 0 .. MaxVal.
MaxElev == 6

InitProfile ==
    /\ alg = "compute_vertical_profile_theil_sen"
    /\ n = 0
    /\ geom = <<>> /\ elevs = <<>> /\ in_range = <<>> /\ data = <<>>
    /\ obs_to_check = [some |-> FALSE, inner |-> <<>>]
    /\ \E len \in 2 .. MaxN :
        \E es \in [1 .. len -> 0 .. MaxElev], vs \in [1 .. len -> 0 .. MaxVal],
           nmp \in {0, MaxN, MaxN + 1}, med \in {1, 2, 100} :
            args = [elevs |-> [p \in 1 .. len |-> Frac(es[p], 2)],
                    values |-> [p \in 1 .. len |-> Frac(vs[p], 1)],
                    num_min_prof |-> nmp, min_elev_diff |-> med]
    /\ InitCommon

ProfileCall ==
    /\ alg = "compute_vertical_profile_theil_sen" /\ pc = "start"
    /\ query' = [vertical_profile |->
                    compute_vertical_profile_theil_sen(args.elevs, args.values,
                                                       args.num_min_prof, args.min_elev_diff)]
    /\ pc' = "done"
    /\ UNCHANGED <<inputs, flags, iteration, i, num_removed_last_iteration, sctvars,
                   box, init_flags, sweep_start_flags, hist>>

NextProfile == ProfileCall

SpecProfile == InitProfile /\ [][NextProfile]_vars

\* Calls of sct computed in f32: three stations on a line, one km the unit,
\* around tests::test_sct_simple (elevations 0, 1 and 100, value 60, num_min 3,
\* num_max 10, radii 10000, thresholds 2, eps2 0.5), with station 0 at one end
\* of the line or in the middle.  A field is the elevations
\* and the values of the three stations: the test's, a constant 60.1 (which is
\* not an f32) on level ground, a station 60 below the two others, and two
\* opposite values close to the largest f32 (1.7e38) 200 m apart in height.
OIArgs ==
    {[num_min |-> m[1], num_max |-> m[2], inner_radius |-> ir, outer_radius |-> 10000,
      num_iterations |-> it, num_min_prof |-> 0, min_elev_diff |-> 100,
      min_horizontal_scale |-> 10000, vertical_scale |-> 200,
      pos |-> t, neg |-> t, eps2 |-> Single(1)] :
        m \in {<<3, 10>>, <<2, 2>>}, ir \in {1, 10000}, it \in 1 .. 2,
        t \in {Single(2), Vec([k \in 0 .. 2 |-> k])}}

InitOI ==
    /\ alg = "sct"
    /\ n = 3
    /\ \E g \in {<<0, 1, 2>>, <<1, 0, 2>>} : geom = [k \in 0 .. 2 |-> g[k + 1]]
    /\ in_range = [k \in 0 .. 2 |-> TRUE]
    /\ obs_to_check \in {[some |-> FALSE, inner |-> [k \in 0 .. 2 |-> TRUE]],
                         [some |-> TRUE, inner |-> [k \in 0 .. 2 |-> k # 1]]}
    /\ \E field \in
            {[elevs |-> <<0, 1, 100>>,
              values |-> <<f32_from(60), f32_from(60), f32_from(60)>>],
             [elevs |-> <<0, 0, 0>>,
              values |-> <<f32_lit(601, 10), f32_lit(601, 10), f32_lit(601, 10)>>],
             [elevs |-> <<0, 0, 0>>,
              values |-> <<f32_from(60), f32_from(60), f32_from(0)>>],
             [elevs |-> <<0, 200, 100>>,
              values |-> <<f32(1, 2^23, 104), f32(-1, 2^23, 104), f32_from(60)>>]} :
        /\ elevs = [k \in 0 .. 2 |-> F(f32_from(field.elevs[k + 1]))]
        /\ data = [k \in 0 .. 2 |-> Some(F(field.values[k + 1]))]
    /\ args \in OIArgs
    /\ InitCommon

NextOI ==
    \/ SctStart
    \/ SctSkip
    \/ SctIsolated
    \/ SctBoxOI
    \/ SctPanicOI
    \/ SctEndSweep

SpecOI == InitOI /\ [][NextOI]_vars

----------------------------------------------------------------------------
(* Properties *)

Running == pc \in {"sweep", "done"}

\* the radius of the neighbour query made for station c
QueryRadius(c) == IF alg = "buddy" THEN Index(args.radii, c) ELSE args.outer_radius

\* C1: in buddy_check and in sct a flag only ever changes from Pass to a value
\* other than Pass; a station that is Fail, DataMissing, Invalid or Isolated
\* keeps its flag until the call returns.
C1_FlagsOnlyLeavePass ==
    [][pc = "sweep" =>
        \A k \in Stations :
            flags'[k] # flags[k] => (flags[k] = "Pass" /\ flags'[k] # "Pass")]_vars

C1_Witness ==
    /\ alg = "sct" /\ pc = "done"
    /\ \E a, b, c \in Stations :
        /\ init_flags[a] = "Pass" /\ flags[a] = "Fail"
        /\ init_flags[b] = "Pass" /\ flags[b] = "Isolated"
        /\ init_flags[c] \in {"DataMissing", "Fail", "Invalid"}

\* C2: buddy_check starts no further sweep after a sweep in which no station
\* changed from Pass to Fail.
C2_StopsAfterQuietSweep ==
    alg = "buddy" =>
        \A k \in 1 .. Len(hist) :
            hist[k].new_fail = 0 => (k = Len(hist) /\ pc = "done")

Ineligible(k) ==
    \/ ~data[k].some
    \/ ~is_valid(data[k])
    \/ (alg = "sct" /\ ~is_valid(elevs[k]))

IneligibleFlag(k) ==
    IF alg = "sct" /\ ~is_valid(elevs[k]) THEN "Invalid"
    ELSE IF ~data[k].some THEN "DataMissing"
    ELSE "Fail"

\* C3: a station with an absent value (DataMissing), a non-finite value (Fail)
\* or, in sct, a non-finite elevation (Invalid) has that flag before the first
\* sweep, keeps it, and is in no buddy list and no box; every value read for a
\* buddy or box member is present and finite.
C3_IneligibleExcluded ==
    Running =>
        /\ \A k \in Stations :
            Ineligible(k) =>
                /\ init_flags[k] = IneligibleFlag(k)
                /\ flags[k] = init_flags[k]
                /\ k \notin box.members
        /\ \A m \in box.members : data[m].some /\ is_valid(data[m])

C3_Witness ==
    /\ pc = "sweep"
    /\ box.members # {}
    /\ \E k \in Stations :
        /\ Ineligible(k)
        /\ k \in get_neighbours(box.pivot, QueryRadius(box.pivot), alg = "sct")

\* the stations that are Pass under flags f within outer_radius of k
FewNeighbours(f, k) == Cardinality(remove_flagged(f, k)) < args.num_min

ElevOk(c, j) ==
    \/ args.max_elev_diff <= 0
    \/ (elevs[c].fin /\ elevs[j].fin
        /\ Abs(elevs[c].val - elevs[j].val) <= args.max_elev_diff)

\* the station the loop has just handled was not skipped: it was Pass (and, in
\* sct, unchecked) when the loop reached it
JustHandled(k) ==
    /\ pc = "sweep" /\ i = k + 1
    /\ IF alg = "buddy" THEN sweep_start_flags[k] = "Pass"
       ELSE \/ flags[k] = "Pass" /\ evals[k] = 0
            \/ flags[k] = "Isolated" /\ sweep_start_flags[k] = "Pass"

\* C7: a station deselected by obs_to_check keeps its initial flag for the whole
\* call; while it is Pass it is a buddy (buddy_check) or box member (sct) of the
\* stations evaluated; without obs_to_check no station is skipped for it.
C7_UnselectedKeptAndUsed ==
    Running =>
        /\ \A k \in Stations : ~Selected(k) => flags[k] = init_flags[k]
        /\ box.pivot >= 0 =>
            \A j \in get_neighbours(box.pivot, QueryRadius(box.pivot), alg = "sct") :
                (/\ ~Selected(j) /\ flags[j] = "Pass"
                 /\ alg = "buddy" =>
                        /\ ElevOk(box.pivot, j)
                        /\ Cardinality(get_neighbours(box.pivot, QueryRadius(box.pivot), FALSE))
                               >= Index(args.nums_min, box.pivot)
                 /\ alg = "sct" =>
                        Cardinality(get_neighbours(box.pivot, QueryRadius(box.pivot), TRUE))
                            <= args.num_max)
                => j \in box.members
        /\ ~obs_to_check.some =>
            \A k \in Stations : JustHandled(k) => box.pivot = k

C7_Witness ==
    /\ pc = "sweep" /\ box.pivot >= 0
    /\ flags[box.pivot] = "Fail"
    /\ \E j \in box.members : ~Selected(j)

\* One more sweep of sct from the flags f (lines 337-505), with the R-tree orders
\* and the interpolation verdicts recorded during the call.  A box the call
\* never computed is taken to reject nobody, so a flag this sweep changes is
\* changed by the code whatever that box's verdict would be.
RECURSIVE SweepFrom(_, _)
SweepFrom(st, c) ==
    IF c = n THEN st
    ELSE LET order == IF c \in DOMAIN tree_order THEN tree_order[c]
                      ELSE CHOOSE o \in Orders(get_neighbours(c, args.outer_radius, TRUE)) : TRUE
             B == Neighbours(st.flags, c, order)
             R == IF B \in DOMAIN oi THEN oi[B] ELSE {}
         IN  SweepFrom(SctStation(st, c, order, R), c + 1)

OneMoreSweep(f) ==
    SweepFrom([flags |-> f, checked |-> [k \in Stations |-> FALSE],
               num_thrown_out |-> 0, evals |-> [k \in Stations |-> 0]], 0).flags

\* C8: when sct stops before num_iterations sweeps because a sweep rejected no
\* station, the flags returned are a fixed point of the sweep: one more sweep
\* would change no flag.
C8_EarlyStopIsFixedPoint ==
    (alg = "sct" /\ pc = "done" /\ iteration < args.num_iterations
     /\ hist[Len(hist)].counted = 0)
        => OneMoreSweep(flags) = flags

\* C10: sct runs between 1 and num_iterations sweeps; every station flagged
\* Fail in a sweep is counted exactly once in num_thrown_out; a sweep that
\* rejects nobody is the last one, and a further sweep is started only after a
\* sweep that rejected somebody.
C10_SweepsAndRejections ==
    (alg = "sct" /\ Running) =>
        /\ 1 <= iteration /\ iteration <= args.num_iterations
        /\ Len(hist) = IF pc = "sweep" THEN iteration - 1 ELSE iteration
        /\ pc = "sweep" =>
            num_thrown_out =
                Cardinality({k \in Stations : flags[k] = "Fail" /\ sweep_start_flags[k] = "Pass"})
        /\ \A k \in 1 .. Len(hist) :
            /\ hist[k].counted = hist[k].new_fail
            /\ hist[k].new_fail = 0 => (k = Len(hist) /\ pc = "done")
        /\ pc = "done" =>
            (hist[Len(hist)].new_fail = 0 \/ iteration = args.num_iterations)

C10_Witness ==
    /\ alg = "sct" /\ pc = "done"
    /\ iteration = 2 /\ iteration < args.num_iterations
    /\ hist[1].counted = 2 /\ hist[2].counted = 0

\* the flags after j sweeps of buddy_check's station loop, run without the break
RECURSIVE AfterSweeps(_)
AfterSweeps(j) == IF j = 0 THEN InitialFlags ELSE BuddySweepFrom(AfterSweeps(j - 1), 0)

\* sweep k is the first sweep that fails no station
FirstQuietSweep(k) ==
    /\ AfterSweeps(k) = AfterSweeps(k - 1)
    /\ \A j \in 1 .. (k - 1) : AfterSweeps(j) # AfterSweeps(j - 1)

\* C9: if sweep k is the first sweep of buddy_check that fails no station, the
\* flags returned with num_iterations = k are the flags returned with any larger
\* num_iterations.
C9_MoreIterationsSameFlags ==
    (alg = "buddy" /\ pc = "done") =>
        \A k \in 1 .. (args.num_iterations - 1) :
            FirstQuietSweep(k) => flags = buddy_check(k)

C9_Witness ==
    /\ alg = "buddy" /\ pc = "done"
    /\ FirstQuietSweep(3)
    /\ args.num_iterations = 4 /\ iteration = 4

\* the variant of buddy_check that applies the flag changes of a sweep at its end
BatchSweep(f) == [c \in Stations |-> BuddyStationFlag(f, c)]

RECURSIVE BatchLoop(_, _, _, _)
BatchLoop(f, last, it, m) ==
    IF it > m THEN f
    ELSE LET g == BatchSweep(f)
             cur == NumRemovedCurrentIteration(g, last)
         IN  IF cur = 0 THEN g ELSE BatchLoop(g, cur, it + 1, m)

buddy_check_batch(m) == BatchLoop(InitialFlags, 0, 1, m)

\* an input on which the in-place and the batched variant differ: stations 0 and 1
\* share a location and the value 0, station 2 is within the radius with value 1
InPlaceVsBatchInput ==
    /\ alg = "buddy"
    /\ geom = (0 :> 0 @@ 1 :> 0 @@ 2 :> 1)
    /\ data = (0 :> Some(F(0)) @@ 1 :> Some(F(0)) @@ 2 :> Some(F(1)))
    /\ ~obs_to_check.some
    /\ args.nums_min = Single(1)

\* C6: buddy_check visits the stations in increasing index order and changes the
\* flags in place: the buddies of station i never include a station j < i that
\* was flagged Fail earlier in the same sweep; and on InPlaceVsBatchInput the
\* flags returned differ from those of the variant that applies all flag changes
\* at the end of each sweep.
C6_InPlaceNotBatched ==
    /\ (alg = "buddy" /\ pc = "sweep" /\ box.pivot >= 0) =>
          /\ i = box.pivot + 1
          /\ \A j \in 0 .. (box.pivot - 1) :
                (sweep_start_flags[j] = "Pass" /\ flags[j] = "Fail")
                    => j \notin box.members
    /\ (InPlaceVsBatchInput /\ pc = "done") =>
          flags # buddy_check_batch(args.num_iterations)

C6_Witness ==
    /\ InPlaceVsBatchInput /\ pc = "done"
    /\ flags = (0 :> "Fail" @@ 1 :> "Fail" @@ 2 :> "Pass")
    /\ buddy_check_batch(args.num_iterations) = [k \in Stations |-> "Fail"]

\* the call of tests::test_buddy_check
ScenarioInput ==
    /\ alg = "buddy" /\ n = BUDDY_N
    /\ data[8] = Some(F(1)) /\ data[9] = Some(F(10))
    /\ args.nums_min = Single(1)
    /\ args.num_iterations = 2

\* C5: on the ten-station call (values 0 for stations 0-7, 0.1 for station 8, 1.0
\* for station 9, nums_min 1, threshold 1, min_std 0.01, num_iterations 2)
\* buddy_check returns Pass for stations 0-7 and Fail for stations 8 and 9;
\* station 9 fails in sweep 1, station 8 passes sweep 1 and fails in sweep 2,
\* when station 9 is no longer among its buddies.
C5_TenStationScenario ==
    ScenarioInput =>
        /\ pc = "done" =>
              flags = [k \in Stations |-> IF k >= 8 THEN "Fail" ELSE "Pass"]
        /\ (pc = "sweep" /\ iteration = 1) => flags[8] = "Pass"
        /\ (pc = "sweep" /\ iteration = 1 /\ i = n) => flags[9] = "Fail"
        /\ (pc = "sweep" /\ iteration = 1 /\ box.pivot = 8) => 9 \in box.members
        /\ (pc = "sweep" /\ iteration = 2 /\ box.pivot = 8) =>
              (9 \notin box.members /\ flags[8] = "Fail")

C5_Witness ==
    /\ ScenarioInput /\ pc = "done"
    /\ flags[8] = "Fail" /\ flags[9] = "Fail"
    /\ Len(hist) = 2 /\ hist[1].new_fail = 1 /\ hist[2].new_fail = 1

\* the conditions on sct's scalar arguments that lines 265-312 reject
SctScalarInvalid ==
    \/ args.num_min < 2
    \/ args.num_max < args.num_min
    \/ args.num_iterations < 1
    \/ args.min_elev_diff <= 0
    \/ args.min_horizontal_scale <= 0
    \/ args.vertical_scale <= 0
    \/ args.inner_radius < 0
    \/ args.outer_radius < args.inner_radius

\* a per-station vector of a length other than data.len()
BadLength(sv) == ~sv.single /\ DOMAIN sv.vec # Stations

\* the tree, a per-station vector or the mask of sct has a length other than data.len()
SctShapeInvalid ==
    \/ DOMAIN geom # Stations
    \/ BadLength(args.pos) \/ BadLength(args.neg) \/ BadLength(args.eps2)
    \/ obs_to_check.some /\ DOMAIN obs_to_check.inner # Stations

\* the values a SingleOrVec parameter applies to the stations
ValuesOf(sv) == IF sv.single THEN {sv.value} ELSE {sv.vec[k] : k \in DOMAIN sv.vec}

\* some eps2 is <= 0 or some pos or neg threshold is < 0
SctThresholdInvalid ==
    \/ \E v \in ValuesOf(args.eps2) : v <= 0
    \/ \E v \in ValuesOf(args.pos) : v < 0
    \/ \E v \in ValuesOf(args.neg) : v < 0

Returned == pc \in {"done", "InvalidArg", "InvalidInputShape", "panic"}

ReturnedErr == pc \in {"InvalidArg", "InvalidInputShape"}

\* C11: sct returns Err before any flag is computed when one of the scalar
\* conditions (num_min < 2, num_max < num_min, num_iterations < 1,
\* min_elev_diff <= 0, min_horizontal_scale <= 0, vertical_scale <= 0,
\* inner_radius < 0, outer_radius < inner_radius) or a length mismatch (tree,
\* pos, neg, eps2, obs_to_check) holds: InvalidArg when only scalar conditions
\* hold, InvalidInputShape when only lengths mismatch; and the limits
\* num_max = num_min, inner_radius = 0, outer_radius = inner_radius are accepted.
C11_SctValidation ==
    (alg = "sct" /\ pc # "start") =>
        /\ (SctScalarInvalid \/ SctShapeInvalid) => (ReturnedErr /\ flags = <<>>)
        /\ (SctScalarInvalid /\ ~SctShapeInvalid) => pc = "InvalidArg"
        /\ (SctShapeInvalid /\ ~SctScalarInvalid /\ ~SctThresholdInvalid)
              => pc = "InvalidInputShape"
        /\ (/\ ~SctShapeInvalid /\ ~SctThresholdInvalid
            /\ args.num_min >= 2 /\ args.num_iterations >= 1
            /\ args.min_elev_diff > 0 /\ args.min_horizontal_scale > 0
            /\ args.vertical_scale > 0
            /\ args.num_max >= args.num_min
            /\ args.inner_radius >= 0 /\ args.outer_radius >= args.inner_radius)
              => ~ReturnedErr

C11_Witness ==
    /\ alg = "sct" /\ pc = "InvalidArg" /\ flags = <<>>
    /\ args.outer_radius < args.inner_radius /\ args.inner_radius >= 0
    /\ ~SctShapeInvalid /\ ~SctThresholdInvalid
    /\ ~args.pos.single /\ obs_to_check.some

\* C12: sct returns Err(InvalidArg) whenever some eps2 is <= 0 or some pos or
\* neg threshold is < 0, given as a single value or as a per-station vector
\* (no length being wrong).
C12_ThresholdsValidated ==
    (alg = "sct" /\ pc # "start" /\ ~SctShapeInvalid /\ SctThresholdInvalid)
        => pc = "InvalidArg"

\* the tree, a per-station vector or the mask of buddy_check has a length
\* other than data.len()
BuddyShapeInvalid ==
    \/ DOMAIN geom # Stations
    \/ BadLength(args.radii) \/ BadLength(args.nums_min)
    \/ obs_to_check.some /\ DOMAIN obs_to_check.inner # Stations

\* C13: buddy_check returns Err(InvalidInputShape), without a panic and before
\* any flag is computed, when the tree, a radii or nums_min vector or
\* obs_to_check has a length other than data.len().
C13_BuddyShapeErrors ==
    (alg = "buddy" /\ pc # "start" /\ BuddyShapeInvalid)
        => (pc = "InvalidInputShape" /\ flags = <<>>)

\* the indices a query returned
Points(q) == {q.points[p] : p \in DOMAIN q.points}

\* C14: with include_match = true a station is returned if and only if its
\* distance to the query point, as get_neighbours_with_distance reports it, is
\* <= radius; the distances are order-matched with the indices and every
\* reported distance is <= radius.
C14_WithinRadiusIffReturned ==
    (alg = "tree" /\ query.at >= 0 /\ query.include_match) =>
        /\ Points(query) = {j \in DOMAIN geom : calc_distance_xyz(query.at, j) <= query.radius}
        /\ DOMAIN query.distances = DOMAIN query.points
        /\ \A p \in DOMAIN query.points :
            /\ query.distances[p] = calc_distance_xyz(query.at, query.points[p])
            /\ query.distances[p] <= query.radius

\* C15: with include_match = false a query at the coordinates of station i
\* returns the stations within the radius other than i itself; a station at
\* the same coordinates as i is still returned.
C15_OnlyQueryPointExcluded ==
    (alg = "tree" /\ query.at >= 0 /\ ~query.include_match) =>
        Points(query) = get_neighbours(query.at, query.radius, TRUE) \ {query.at}

\* the eligible buddies of station c under flags f: the stations the query of
\* line 88 returns that are Pass and, when max_elev_diff > 0, within it
EligibleBuddies(f, c) ==
    {j \in get_neighbours(c, Index(args.radii, c), FALSE) : f[j] = "Pass" /\ ElevOk(c, j)}

SctReturn == [flags |-> flags]

\* C18: sct returns, alongside the flags, a per-station prob_gross_error.
C18_ReturnsProbGrossError ==
    (alg = "sct" /\ pc = "done") =>
        /\ SctReturn.flags = flags
        /\ "prob_gross_error" \in DOMAIN SctReturn

\* some point of the tree has |latitude| > 90 or |longitude| > 360
PositionOutOfRange == \E k \in DOMAIN in_range : ~in_range[k]

\* C19: a station position with |latitude| > 90 or |longitude| > 360 makes a
\* run of sct end with a typed Err: it neither panics nor goes on with the
\* position accepted.
C19_PositionsValidated ==
    (alg = "sct" /\ pc # "start" /\ PositionOutOfRange) => ReturnedErr

\* the positions of the array that hold a valid (finite) value
ValidPositions(array) == {p \in DOMAIN array : is_valid(array[p])}

\* the valid value of rank k (from 0) in ascending order, by counting
Ranked(array, k) ==
    CHOOSE v \in {array[p].val : p \in ValidPositions(array)} :
        /\ Cardinality({p \in ValidPositions(array) : array[p].val < v}) <= k
        /\ k < Cardinality({p \in ValidPositions(array) : array[p].val <= v})

\* C20: for 0 <= q <= 1 and at least one finite value, compute_quantile
\* ignores the non-finite values and returns
\* sorted[lo] + (sorted[hi] - sorted[lo]) * (q*(n-1) - lo) over the n valid
\* values in ascending order, with lo = floor(q*(n-1)) and hi = ceil(q*(n-1));
\* the result lies between the smallest and the largest valid value, is the
\* single value when n = 1, and quantile(0.5, [1,2,3,4]) = 2.5.
C20_QuantileInterpolates ==
    (alg = "compute_quantile" /\ pc # "start" /\ ValidPositions(args.array) # {}) =>
        /\ pc = "done"
        /\ LET q == args.quantile
               len == Cardinality(ValidPositions(args.array))
               lo == CHOOSE k \in 0 .. len - 1 :
                        /\ k * q.den <= q.num * (len - 1)
                        /\ q.num * (len - 1) < (k + 1) * q.den
               hi == CHOOSE k \in 0 .. len - 1 :
                        /\ (k - 1) * q.den < q.num * (len - 1)
                        /\ q.num * (len - 1) <= k * q.den
               expected == Frac(Ranked(args.array, lo) * q.den
                                    + (Ranked(args.array, hi) - Ranked(args.array, lo))
                                        * (q.num * (len - 1) - lo * q.den),
                                q.den)
           IN  /\ FracEq(query.exact_q, expected)
               /\ ~FracLess(query.exact_q, Frac(Ranked(args.array, 0), 1))
               /\ ~FracLess(Frac(Ranked(args.array, len - 1), 1), query.exact_q)
               /\ len = 1 => FracEq(query.exact_q, Frac(Ranked(args.array, 0), 1))
               /\ (q = Frac(10, 20) /\ args.array = <<F(1), F(2), F(3), F(4)>>)
                    => FracEq(query.exact_q, Frac(5, 2))

\* the first quartile of three unsorted values with a NaN among them is
\* interpolated half way between the two smallest
C20_Witness ==
    /\ alg = "compute_quantile" /\ pc = "done"
    /\ args.quantile = Frac(5, 20)
    /\ args.array = <<F(4), NaN, F(1), F(2)>>
    /\ FracEq(query.exact_q, Frac(3, 2))

\* C22: in sct a station that has been evaluated and marked checked is not
\* evaluated again in the same sweep, neither as a pivot nor as a member of
\* another pivot's box: every station is evaluated at most once per sweep.
C22_EvaluatedOncePerSweep ==
    (alg = "sct" /\ Running) => \A k \in Stations : evals[k] <= 1

\* C23: every box on which sct computes the optimal interpolation holds only
\* stations that are Pass at that moment and within the pivot's neighbour
\* query, has between num_min and num_max members, and, when more than num_max
\* Pass stations are within reach, consists of num_max of them with no excluded
\* station strictly nearer to the pivot than an included one.
C23_BoxesWellFormed ==
    [][(alg = "sct" /\ pc = "sweep" /\ box'.pivot = i /\ i' = i + 1
            /\ box'.members \in DOMAIN oi')
        => LET B == box'.members
               P == {j \in Stations : Dist2(i, j) <= args.outer_radius /\ flags[j] = "Pass"}
           IN  /\ B \subseteq P
               /\ args.num_min <= Cardinality(B)
               /\ Cardinality(B) <= args.num_max
               /\ Cardinality(P) <= args.num_max => B = P
               /\ Cardinality(P) > args.num_max =>
                    /\ Cardinality(B) = args.num_max
                    /\ \A x \in P \ B, y \in B :
                        ~(calc_distance_xyz(i, x) < calc_distance_xyz(i, y))]_vars

\* a box cut to num_max members, a Pass station farther away left out
C23_Witness ==
    /\ alg = "sct" /\ pc = "sweep" /\ box.pivot >= 0
    /\ box.members \in DOMAIN oi
    /\ box.pivot \in DOMAIN tree_order
    /\ Cardinality(box.members) = args.num_max
    /\ \E x \in Stations \ box.members :
        /\ flags[x] = "Pass" /\ Dist2(box.pivot, x) <= args.outer_radius
        /\ \A y \in box.members :
            calc_distance_xyz(box.pivot, y) < calc_distance_xyz(box.pivot, x)

\* C29: the subtraction num_removed - num_removed_last_iteration of
\* buddy_check never underflows: the stored num_removed_last_iteration is at
\* most the current count of flags other than Pass, and the difference taken
\* at the end of every sweep is not negative.
C29_NoUnderflow ==
    (alg = "buddy" /\ Running) =>
        /\ num_removed_last_iteration >= 0
        /\ num_removed_last_iteration <= NumRemoved(flags)
        /\ \A k \in 1 .. Len(hist) : hist[k].counted >= 0

\* three sweeps, the second and the third subtracting a stored count above 0
C29_Witness ==
    /\ alg = "buddy" /\ pc = "done" /\ Len(hist) >= 3
    /\ hist[1].counted > 0 /\ hist[2].counted > 0
    /\ hist[3].counted < NumRemoved(flags)
    /\ hist[2].new_fail > 0

\* C25: in a sweep of buddy_check a Pass station i with at least nums_min[i]
\* eligible buddies is flagged Fail if and only if
\* |value_i - mean| / max(sqrt(var * (1 + 1/n)), min_std) > threshold, mean and
\* var = E[x^2] - E[x]^2 taken over the n eligible buddy values.  With
\* max_elev_diff > 0 a buddy whose elevation differs from i's by more than
\* max_elev_diff is dropped and each value kept is shifted by
\* elev_gradient * (elev_i - elev_buddy); with max_elev_diff <= 0 no buddy is
\* dropped for its elevation and the values are used as they are.
C25_BuddyThreshold ==
    [][(alg = "buddy" /\ pc = "sweep" /\ i < n /\ pc' = "sweep"
            /\ flags[i] = "Pass" /\ Selected(i))
        => LET near == {j \in Stations : Dist2(i, j) <= Index(args.radii, i)
                                          /\ geom[j] # geom[i] /\ flags[j] = "Pass"}
               kept == IF args.max_elev_diff > 0
                       THEN {j \in near : Abs(elevs[i].val - elevs[j].val) <= args.max_elev_diff}
                       ELSE near
               x == [j \in kept |->
                        IF args.max_elev_diff > 0
                        THEN data[j].val + args.elev_gradient * (elevs[i].val - elevs[j].val)
                        ELSE data[j].val]
               cnt == Cardinality(kept)
               sum == SumOver(kept, x)
               sumsq == SumOver(kept, [j \in kept |-> x[j] * x[j]])
               \* cnt * |value_i - mean| and cnt^2 * var
               dev == Abs(cnt * data[i].val - sum)
               var2 == cnt * sumsq - sum * sum
               T == args.threshold
               \* |value_i - mean| > T * sqrt(var * (1 + 1/cnt)), squared, times cnt^3
               aboveSpread == dev * dev * cnt > T * T * var2 * (cnt + 1)
               \* |value_i - mean| > T * min_std, times cnt * den
               aboveMinStd == dev * args.min_std.den > T * args.min_std.num * cnt
           IN  cnt >= Index(args.nums_min, i)
                  => (flags'[i] = "Fail" <=> (aboveSpread /\ aboveMinStd))]_vars

\* a station failed against buddies one of which was dropped for its elevation
\* and another had its value shifted
C25_Witness ==
    /\ alg = "buddy" /\ pc = "sweep" /\ box.pivot >= 0
    /\ args.max_elev_diff > 0
    /\ flags[box.pivot] = "Fail" /\ sweep_start_flags[box.pivot] = "Pass"
    /\ \E j \in Stations \ (box.members \cup {box.pivot}) :
        sweep_start_flags[j] = "Pass"
    /\ \E j \in box.members :
        /\ elevs[j] # elevs[box.pivot]
        /\ data[j].val = data[box.pivot].val

\* the entry of rank k (from 0) of the fractions xs in ascending order, by counting
FracRanked(xs, k) ==
    xs[CHOOSE p \in DOMAIN xs :
        /\ Cardinality({r \in DOMAIN xs : FracLess(xs[r], xs[p])}) <= k
        /\ k < Cardinality({r \in DOMAIN xs : ~FracLess(xs[p], xs[r])})]

\* the median: the middle entry, or the mean of the two middle entries
FracMedian(xs) ==
    LET len == Cardinality(DOMAIN xs) IN
    FracNorm(FracMul(FracAdd(FracRanked(xs, (len - 1) \div 2), FracRanked(xs, len \div 2)),
                     Frac(1, 2)))

\* the percentile pct of xs (pct in 1 .. 99), interpolated between ranks
FracPercentile(xs, pct) ==
    LET len == Cardinality(DOMAIN xs)
        lo == (pct * (len - 1)) \div 100
        hi == IF (pct * (len - 1)) % 100 = 0 THEN lo ELSE lo + 1
    IN  FracNorm(FracAdd(FracRanked(xs, lo),
                         FracMul(FracSub(FracRanked(xs, hi), FracRanked(xs, lo)),
                                 Frac(pct * (len - 1) - 100 * lo, 100))))

\* C26: compute_vertical_profile_theil_sen returns for every point the
\* arithmetic mean of the values when all elevations are equal, whatever
\* num_min_prof and min_elev_diff; otherwise intercept + slope * elevation,
\* slope being -0.0065 if there are fewer points than num_min_prof or the 95th
\* minus the 5th percentile of the elevations is below min_elev_diff, else the
\* median over the pairs i < j of (value_i - value_j) / (elev_i - elev_j), a
\* pair less than 1 m apart counting 0, and intercept the median of
\* value_i - slope * elev_i.
C26_TheilSenProfile ==
    (alg = "compute_vertical_profile_theil_sen" /\ pc = "done") =>
        LET es == args.elevs
            vs == args.values
            len == Len(vs)
            pairs == {pq \in (1 .. len) \X (1 .. len) : pq[1] < pq[2]}
            slopes == [pq \in pairs |->
                        IF 2 * Abs(es[pq[1]].num - es[pq[2]].num) < 2 * es[pq[1]].den
                        THEN Frac(0, 1)
                        ELSE LET dz == es[pq[1]].num - es[pq[2]].num
                                 dv == vs[pq[1]].num - vs[pq[2]].num
                             IN  IF dz > 0 THEN FracNorm(Frac(2 * dv, dz))
                                 ELSE FracNorm(Frac(-(2 * dv), -dz))]
            slope == IF \/ len < args.num_min_prof
                        \/ FracLess(FracSub(FracPercentile(es, 95), FracPercentile(es, 5)),
                                    Frac(args.min_elev_diff, 1))
                     THEN Frac(-65, 10000)
                     ELSE FracMedian(slopes)
            intercept == FracMedian([p \in 1 .. len |->
                                        FracNorm(FracSub(vs[p], FracMul(slope, es[p])))])
            total == SumOver(1 .. len, [p \in 1 .. len |-> vs[p].num])
        IN  /\ DOMAIN query.vertical_profile = 1 .. len
            /\ \A p \in 1 .. len :
                IF \A r \in 1 .. len : es[r] = es[1]
                THEN FracEq(query.vertical_profile[p], Frac(total, len))
                ELSE FracEq(query.vertical_profile[p],
                            FracNorm(FracAdd(intercept, FracMul(slope, es[p]))))

\* three points 0, 1 and 3 m high with values 2, 0, 1: the slopes are -2, -1/3
\* and 1/2, their median -1/3, the intercepts 2, 1/3, 2, their median 2
C26_Witness ==
    /\ alg = "compute_vertical_profile_theil_sen" /\ pc = "done"
    /\ args.elevs = <<Frac(0, 2), Frac(2, 2), Frac(6, 2)>>
    /\ args.values = <<Frac(2, 1), Frac(0, 1), Frac(1, 1)>>
    /\ args.num_min_prof = 0 /\ args.min_elev_diff = 2
    /\ query.vertical_profile = <<Frac(2, 1), Frac(5, 3), Frac(1, 1)>>

\* tests::test_sct_simple (lines 546-574): the call of C21
SimpleTest ==
    /\ alg = "sct" /\ n = 3
    /\ geom = [k \in 0 .. 2 |-> k]
    /\ elevs = [k \in 0 .. 2 |-> F(f32_from(IF k = 0 THEN 0 ELSE IF k = 1 THEN 1 ELSE 100))]
    /\ data = [k \in 0 .. 2 |-> Some(F(f32_from(60)))]
    /\ ~obs_to_check.some
    /\ args = [num_min |-> 3, num_max |-> 10, inner_radius |-> 10000,
               outer_radius |-> 10000, num_iterations |-> 1, num_min_prof |-> 0,
               min_elev_diff |-> 100, min_horizontal_scale |-> 10000,
               vertical_scale |-> 200, pos |-> Single(2), neg |-> Single(2),
               eps2 |-> Single(1)]

\* C21: for three stations on a line with elevations 0, 1 and 100 m, all with
\* value 60, and num_min 3, num_max 10, both radii 10000, one iteration,
\* num_min_prof 0, min_elev_diff 100, min_horizontal_scale 10000,
\* vertical_scale 200, pos = neg = 2 and eps2 = 0.5, sct returns
\* [Pass, Pass, Fail], in whatever order the R-tree enumerates the stations.
C21_SimpleTestFlags ==
    (SimpleTest /\ pc = "done") =>
        flags = [k \in 0 .. 2 |-> IF k = 2 THEN "Fail" ELSE "Pass"]

\* the call has returned after one sweep in which the box of station 0, the
\* three stations, rejected the station at 100 m and kept the two others
C21_Witness ==
    /\ SimpleTest /\ pc = "done"
    /\ flags[2] = "Fail" /\ oi[{0, 1, 2}] = {2}
    /\ hist[1].new_fail = 1

\* C24: in sct, a box member k selected by obs_to_check is flagged Fail by a box
\* if and only if its distance to the pivot is <= inner_radius and either
\* cvres_k < 0 and pog_k > pos[k], or cvres_k >= 0 and pog_k > neg[k], the
\* thresholds being those of the station's global index and the comparison
\* strict; a member farther than inner_radius from the pivot is neither flagged
\* nor marked checked by that box.
C24_RejectionRule ==
    [][(pc = "sweep" /\ i' = i + 1 /\ "pog" \in DOMAIN box' /\ box'.pivot = i) =>
        \A p \in DOMAIN box'.seq :
            LET k == box'.seq[p]
                near == calc_distance_xyz(i, k) <= args.inner_radius
                cvres_k == box'.cvres[p]
                pog_k == box'.pog[p]
                pos_k == f32_from(IF args.pos.single THEN args.pos.value ELSE args.pos.vec[k])
                neg_k == f32_from(IF args.neg.single THEN args.neg.value ELSE args.neg.vec[k])
            IN  /\ Selected(k) =>
                    (flags'[k] = "Fail" <=>
                        /\ near
                        /\ \/ f32_lt(cvres_k, f32_zero) /\ f32_lt(pos_k, pog_k)
                           \/ f32_le(f32_zero, cvres_k) /\ f32_lt(neg_k, pog_k))
                /\ ~near => flags'[k] = flags[k] /\ checked'[k] = checked[k]]_vars

\* a box just evaluated, with thresholds given per station, in which the member
\* at some position p is not station p - 1 and was flagged Fail, and another
\* member is farther than inner_radius from the pivot, still Pass and unchecked
C24_Witness ==
    /\ pc = "sweep" /\ "pog" \in DOMAIN box /\ box.assertion = "none"
    /\ ~args.pos.single /\ ~args.neg.single
    /\ \E p, q \in DOMAIN box.seq :
        /\ box.seq[p] # p - 1
        /\ box.seq[p] \in box.applied /\ flags[box.seq[p]] = "Fail"
        /\ calc_distance_xyz(box.pivot, box.seq[q]) > args.inner_radius
        /\ flags[box.seq[q]] = "Pass" /\ ~checked[box.seq[q]]

\* C27: if every station has a present value equal to one common constant and
\* all stations have the same finite elevation, sct flags no station Fail for
\* any valid arguments and stops after the first sweep; when in addition every
\* station has at least num_min stations within outer_radius, all flags are Pass.
C27_ConstantFieldNeverFails ==
    (/\ alg = "sct" /\ pc \in {"sweep", "done", "panic"}
     /\ \A k \in Stations : data[k].some /\ is_valid(data[k]) /\ is_valid(elevs[k])
     /\ \A j, k \in Stations : data[j].val = data[k].val /\ elevs[j].val = elevs[k].val) =>
        /\ \A k \in Stations : flags[k] # "Fail"
        /\ pc # "panic"
        /\ Len(hist) <= 1 /\ (Len(hist) = 1 => pc = "done")
        /\ (\A k \in Stations :
                Cardinality(get_neighbours(k, args.outer_radius, TRUE)) >= args.num_min)
            => (pc = "done" => \A k \in Stations : flags[k] = "Pass")

\* the body of the station loop (lines 343-505) for station c on the state st,
\* with the interpolation computed, when the R-tree enumerates the neighbours
\* of c as order
SctStationOI(st, c, order) ==
    IF SctSkips(st, c) THEN SctStation(st, c, order, {})
    ELSE With(BoxSeq(st.flags, c, order), LAMBDA b :
            IF Len(b) < args.num_min THEN SctStation(st, c, order, {})
            ELSE SctStation(st, c, order, Rejected(b, BoxOI(b))))

\* the stations c, c + 1, .. of one sweep (line 343), every pivot's neighbours
\* enumerated in the order of their station numbers
RECURSIVE SweepInIndexOrder(_, _)
SweepInIndexOrder(st, c) ==
    IF c >= n THEN st
    ELSE With(SctStationOI(st, c,
                  CHOOSE o \in Orders(get_neighbours(c, args.outer_radius, TRUE)) :
                      \A p, q \in DOMAIN o : p < q => o[p] < o[q]),
              LAMBDA next : SweepInIndexOrder(next, c + 1))

\* C28: the flags returned by sct are a function of its arguments alone and do
\* not depend on the order in which the spatial index enumerates the neighbours
\* of a pivot, also when several stations are at equal distance at the num_max
\* cut: a call of one sweep returns the flags of the sweep in which every
\* pivot's neighbours are enumerated in the order of their station numbers.
C28_FlagsIndependentOfEnumeration ==
    (alg = "sct" /\ pc = "done" /\ args.num_iterations = 1 /\ args.num_max < n) =>
        flags = SweepInIndexOrder([flags |-> init_flags,
                                   checked |-> [k \in Stations |-> FALSE],
                                   num_thrown_out |-> 0,
                                   evals |-> [k \in Stations |-> 0]], 0).flags

\* C30: given arguments that pass sct's validation and stations with finite
\* coordinates, the assertion n > 0 of compute_quantile is never violated by a
\* call made from sct: every set of elevations, pairwise slopes, intercepts and
\* horizontal distances passed to it contains at least one finite value.
C30_QuantileNeverEmpty ==
    (alg = "sct" /\ SctValidate = "Ok" /\ (\A k \in Stations : in_range[k])
     /\ pc = "panic" /\ "assertion" \in DOMAIN box)
        => box.assertion # "n > 0"

====
